---- MODULE Spec2Model ----
(***************************************************************************)
(* Model of the log ingestion pipeline of the iObeya Logs Analyzer:        *)
(*   - LogLoaderThread (src/log_processing.py): the background worker that  *)
(*     reads a single file or the selected members of a zip archive,       *)
(*     parses entries, sorts them and signals the host;                    *)
(*   - LogAnalyzerApp (src/iobeya_log_analyzer.py): the host that starts   *)
(*     loads, owns the temporary directory and the LogStore                *)
(*     (log_entries_full) and handles the worker's signals.                *)
(*   - AppLogic (src/app_logic.py) with SearchEngine                       *)
(*     (src/search_engine.py): the filter state, the five-stage filter     *)
(*     pipeline and the category tree;                                     *)
(*   - VirtualTreeWidget (src/ui_widgets.py): the paged result list.       *)
(* Worker steps are split at every read of the shared flag should_stop and *)
(* at every access to the temporary directory, so that every interleaving  *)
(* of the host with the worker is explored.                                *)
(***************************************************************************)
EXTENDS Integers, Sequences, FiniteSets, TLC

\* ------------------------------------------------------------------ bounds
\* number of load requests that start a worker in one run of the program
MaxLoads == 2
\* number of load requests that start a worker under the fair specification
MaxFairLoads == 1
\* number of archive members the user selects for one load
MaxMembers == 2
\* number of header lines of the input of the parse-and-sort specification
MaxSortLen == 3
\* number of entries of a LogStore of the filter specification
MaxStoreLen == 2
MaxPageLen == 3
\* number of lines of the file of the parse-and-fetch specification
MaxFileLen == 3
\* number of members of the archive of the selection dialog
MaxZipMembers == 3
\* rows of a page of the message list (1000 in ui_widgets.py line 110)
items_per_page == 2
\* largest maximum of the vertical scroll bar of the message list
MaxScroll == 3
\* the numbers of categories the Top 5 and Top 10 buttons select (5 and 10
\* in app_logic.py 653 and 656), in the scale of the stores of the model
Top5 == 1
Top10 == 2

\* ------------------------------------------------------- datetime handling
\* datetime.min, the value stored in datetime_obj when strptime fails
DatetimeMin == 0
\* datetime.max, the sort key of an entry without a parseable timestamp
DatetimeMax == 4
\* the outcome of strptime raising ValueError
ValueError == -1

\* Raw timestamps, all matching \d{4}-\d{2}-\d{2} \d{2}:\d{2}:\d{2}.
RawTimestamps ==
  {"0001-01-01 00:00:00", "2024-01-01 10:00:00", "2024-01-01 10:00:01",
   "2024-13-01 10:00:00", "9999-12-31 23:59:59"}

\* datetime.strptime(dt_str, '%Y-%m-%d %H:%M:%S'): the instant, as its rank
\* among the instants of the model, or ValueError (month 13 is no date).
strptime(dt_str) ==
  CASE dt_str = "0001-01-01 00:00:00" -> DatetimeMin
    [] dt_str = "2024-01-01 10:00:00" -> 1
    [] dt_str = "2024-01-01 10:00:01" -> 2
    [] dt_str = "9999-12-31 23:59:59" -> 3
    [] OTHER -> ValueError

\* ------------------------------------------------------------------ lines
\* A line of a source: hdr says whether entry_pattern matches it.
HeaderLine(ts, lgr) == [hdr |-> TRUE, ts |-> ts, lgr |-> lgr]
ContinuationLine == [hdr |-> FALSE, ts |-> "", lgr |-> <<>>]

\* logger names, as sequences of characters
Auth == <<"A", "u", "t", "h">>
Net == <<"N", "e", "t">>

\* str.startswith
startswith(s, prefix) ==
  /\ Len(prefix) <= Len(s)
  /\ SubSeq(s, 1, Len(prefix)) = prefix

\* The entry built for a matching line (log_processing.py 195-211).
MakeEntry(line, source_name, line_number) ==
  LET parsed == strptime(line.ts)
  IN [datetime |-> line.ts,
      datetime_obj |-> IF parsed = ValueError THEN DatetimeMin ELSE parsed,
      logger_name |-> line.lgr,
      source_file_path |-> source_name,
      line_number |-> line_number]

\* the entry numbered by its place among the entries, not by its line
ParseLine_numbered_by_entry(log_entries, line, source_name, line_number, prefixes) ==
  IF ~line.hdr THEN log_entries
  ELSE IF /\ prefixes # {}
          /\ ~\E prefix \in prefixes : startswith(line.lgr, prefix)
       THEN log_entries
       ELSE Append(log_entries,
                   MakeEntry(line, source_name, Len(log_entries) + 1))

\* One iteration of the body of the parse loop (log_processing.py 182-215):
\* the entries list after the line numbered line_number has been handled.
ParseLine(log_entries, line, source_name, line_number, prefixes) ==
  IF ~line.hdr THEN log_entries
  ELSE IF /\ prefixes # {}
          /\ ~\E prefix \in prefixes : startswith(line.lgr, prefix)
       THEN log_entries
       ELSE Append(log_entries, MakeEntry(line, source_name, line_number))

\* ------------------------------------------------------------------- sort
\* sort_key of run(): datetime_obj when it is a real instant, else the
\* string parsed again, else datetime.max.
sort_key_first(entry) == entry.datetime_obj

sort_key(entry) ==
  IF entry.datetime_obj # DatetimeMin THEN entry.datetime_obj
  ELSE LET again == strptime(entry.datetime)
       IN IF again = ValueError THEN DatetimeMax ELSE again

\* list.sort(key=sort_key): stable, ascending. Insertion of e after every
\* element whose key is not greater.
RECURSIVE InsertSorted(_, _)
InsertSorted(e, sorted) ==
  IF sorted = <<>> THEN <<e>>
  ELSE IF sort_key(Head(sorted)) <= sort_key(e)
       THEN <<Head(sorted)>> \o InsertSorted(e, Tail(sorted))
       ELSE <<e>> \o sorted

RECURSIVE SortEntries(_)
SortEntries(entries) ==
  IF entries = <<>> THEN <<>>
  ELSE InsertSorted(entries[Len(entries)],
                    SortEntries(SubSeq(entries, 1, Len(entries) - 1)))

\* ---------------------------------------------------------------- sources
\* The files a load can name: members of the archive and files on disk.
\*   exists       the member is in the archive / the file is on disk
\*   gz           the name ends with .gz
\*   gz_ok        gzip can decompress it
\*   utf8_bad_at  the line at whose read utf-8 decoding raises (0: never);
\*                latin-1, iso-8859-1 and cp1252 decode these bytes
\*   lines        the decoded lines
SourceNames == <<"gone.log", "app.log", "bad.log.gz", "err.log.gz">>

Source(name) ==
  CASE name = "app.log" ->
         [exists |-> TRUE, gz |-> FALSE, gz_ok |-> FALSE, utf8_bad_at |-> 0,
          lines |-> <<HeaderLine("2024-01-01 10:00:01", Auth),
                      HeaderLine("2024-13-01 10:00:00", Net)>>]
    [] name = "err.log.gz" ->
         [exists |-> TRUE, gz |-> TRUE, gz_ok |-> TRUE, utf8_bad_at |-> 2,
          lines |-> <<HeaderLine("2024-01-01 10:00:00", Net),
                      ContinuationLine>>]
    [] name = "bad.log.gz" ->
         [exists |-> TRUE, gz |-> TRUE, gz_ok |-> FALSE, utf8_bad_at |-> 0,
          lines |-> <<>>]
    [] name = "sub/app.log" ->
         [exists |-> TRUE, gz |-> FALSE, gz_ok |-> FALSE, utf8_bad_at |-> 0,
          lines |-> <<HeaderLine("2024-01-01 10:00:00", Net)>>]
    [] name = "err.log" ->
         [exists |-> TRUE, gz |-> FALSE, gz_ok |-> FALSE, utf8_bad_at |-> 0,
          lines |-> <<ContinuationLine,
                      HeaderLine("2024-01-01 10:00:01", Auth)>>]
    [] OTHER ->
         [exists |-> FALSE, gz |-> FALSE, gz_ok |-> FALSE, utf8_bad_at |-> 0,
          lines |-> <<>>]

\* os.path.basename(name): the member names of an archive may have a folder
basename(name) ==
  CASE name = "sub/app.log" -> "app.log"
    [] OTHER -> name

\* os.path.basename(name)[:-3] for a name ending with .gz
StripGz(name) ==
  CASE name = "err.log.gz" -> "err.log"
    [] name = "bad.log.gz" -> "bad.log"
    [] OTHER -> name

NameIndex(name) == CHOOSE k \in 1..Len(SourceNames) : SourceNames[k] = name

\* The member lists the archive selection dialog can hand over: non-empty,
\* without repetition, in archive order.
Selections ==
  {sel \in UNION {[1..n -> {SourceNames[k] : k \in 1..Len(SourceNames)}] :
                    n \in 1..MaxMembers} :
     \A a, b \in 1..Len(sel) : a < b => NameIndex(sel[a]) < NameIndex(sel[b])}

\* The members of the archive whose extracted files share a path.
ArchiveNames == <<"app.log", "sub/app.log", "err.log", "err.log.gz">>

\* The archive loads of them: a selection the dialog hands over is not
\* empty, has no member twice and is in archive order.
ArchiveRequests ==
  {[file_path |-> "", archive_path |-> "logs.zip", selected_files |-> sel] :
     sel \in
       {s \in UNION {[1..n -> {ArchiveNames[k] : k \in 1..Len(ArchiveNames)}] :
                       n \in 1..MaxMembers} :
          \A a, b \in 1..Len(s) :
            a < b => \E i, j \in 1..Len(ArchiveNames) :
                       i < j /\ ArchiveNames[i] = s[a] /\ ArchiveNames[j] = s[b]}}

\* The arguments of _initiate_loading_process.
LoadRequests ==
  {[file_path |-> SourceNames[k], archive_path |-> "", selected_files |-> <<>>] :
     k \in 1..Len(SourceNames)}
  \cup {[file_path |-> "", archive_path |-> "logs.zip", selected_files |-> sel] :
     sel \in Selections}
  \cup {[file_path |-> "", archive_path |-> "corrupt.zip",
         selected_files |-> <<"app.log">>]}

\* zipfile.ZipFile(archive_path) raises BadZipFile
BadZipFile(archive_path) == archive_path = "corrupt.zip"

\* self.encodings_to_try
encodings_to_try == <<"utf-8", "latin-1", "iso-8859-1", "cp1252">>

\* the line at whose read decoding with encoding number enc raises, 0: never
DecodeErrorAt(src, enc) ==
  IF encodings_to_try[enc] = "utf-8" THEN Source(src).utf8_bad_at ELSE 0

\* ------------------------------------------------------------------ state
VARIABLES
  threads,           \* the LogLoaderThread objects, by load number
  queue,             \* queued signals from the workers to the host, in order
  tempfs,            \* the existing temporary directories and their files
  loader_thread,     \* LogAnalyzerApp.loader_thread (0: None)
  current_temp_dir,  \* LogAnalyzerApp.current_temp_dir (0: None)
  log_entries_full,  \* LogAnalyzerApp.log_entries_full, the LogStore
  hstack,            \* the host's handlers that are blocked, innermost first
  closed,            \* closeEvent has run
  lastStore,         \* which handler wrote log_entries_full last, and what
  loadLimit,         \* the number of loads the behaviour may start
  sortIn,            \* parse-and-sort specification: the lines of the source
  sortOut            \* parse-and-sort specification: the sorted entries

\* AppLogic, SearchEngine and the widgets they read and write
VARIABLES
  selected_log_levels,        \* the levels whose flag is True
  timeline_filter,            \* timeline_filter_active, _start_time, _end_time
  current_search_text,        \* the substring query of the message list
  global_search_query,        \* the full-text query
  global_search_timer,        \* the debounce timer of the full-text query runs
  search_engine,              \* SearchEngine: is_indexed and the indexed rows
  message_type_search_input,  \* the text of the category search box
  message_type_search_timer,  \* the debounce timer of the category search box runs
  search_input,               \* SearchWidget: the text of the substring box
  search_timer,               \* SearchWidget: its debounce timer runs
  message_types_tree,         \* the category tree: name -> count, check, hidden
  all_items_data,             \* VirtualTreeWidget: the published result
  filtered_items_data,        \* VirtualTreeWidget: the sorted result
  visible_items,              \* VirtualTreeWidget: the materialised rows
  current_page,               \* VirtualTreeWidget: pages loaded
  current_sort                \* VirtualTreeWidget: current_sort_column, _order

\* the pre-load filter, the on-demand reading of an entry, the search
\* engine taken alone and the archive selection dialog
VARIABLES
  active_filter_loggers,  \* AppLogic.active_filter_loggers, the allow-list
  source_lines,           \* the lines of the file the parser is given
  parsed_entries,         \* what _parse_log_from_iterator returned for it
  full_entry,             \* what _fetch_full_log_entry read last
  index_built_from,       \* the last index_data or close of the engine
  matching_indices,       \* the outcome of the last SearchEngine.search
  infolist,               \* zf.infolist() of the archive of the dialog
  file_items              \* ArchiveSelectionDialog.file_items

toolVars == <<active_filter_loggers, source_lines, parsed_entries, full_entry,
              index_built_from, matching_indices, infolist, file_items>>

filterVars == <<selected_log_levels, timeline_filter, current_search_text,
                global_search_query, global_search_timer, search_engine,
                message_type_search_input, message_type_search_timer,
                search_input, search_timer, message_types_tree>>
pageVars == <<all_items_data, filtered_items_data, visible_items,
              current_page, current_sort>>
viewVars == <<filterVars, pageVars, toolVars>>

vars == <<threads, queue, tempfs, loader_thread, current_temp_dir,
          log_entries_full, hstack, closed, lastStore,
          loadLimit, sortIn, sortOut, viewVars>>

hostVars == <<loader_thread, current_temp_dir, log_entries_full, hstack,
              closed, lastStore>>
sortVars == <<loadLimit, sortIn, sortOut>>
\* what the handlers of AppLogic and of the message list leave alone
loaderVars == <<threads, queue, tempfs, loader_thread, current_temp_dir,
                hstack, closed, lastStore, sortIn, sortOut, toolVars>>

Loads == DOMAIN threads

\* QThread.isRunning(): from start() until run() has returned or the thread
\* has been killed.
isRunning(t) == threads[t].pc \notin {"done", "killed", "collected"}

DiskPath(name) == [dir |-> 0, base |-> name]
TempPath(d, base) == [dir |-> d, base |-> base]

\* os.path.exists(temp_dir)
DirExists(d) == d \in DOMAIN tempfs

\* a file written into directory d under the name base
WriteFile(d, base, content) ==
  [tempfs EXCEPT ![d] = (base :> content) @@ @]

\* the catalogue name of the bytes behind a path
SourceOf(path) ==
  IF path.dir = 0 THEN path.base ELSE tempfs[path.dir][path.base]

\* os.path.getsize / open succeed
FileExists(path) ==
  IF path.dir = 0 THEN Source(path.base).exists
  ELSE /\ DirExists(path.dir)
       /\ path.base \in DOMAIN tempfs[path.dir]

\* ---------------------------------------------------------------- signals
\* the kinds of signal of one load, consecutive progress updates as one
AddTrace(trace, kind) ==
  IF kind = "progress" /\ trace # <<>> /\ trace[Len(trace)] = "progress"
  THEN trace
  ELSE Append(trace, kind)

finished_loading(t, entries, failed) ==
  [sig |-> "finished_loading", id |-> t, entries |-> entries,
   failed |-> failed, msg |-> ""]

error_occurred(t, msg) ==
  [sig |-> "error_occurred", id |-> t, entries |-> <<>>, failed |-> <<>>,
   msg |-> msg]

\* a new LogLoaderThread (log_processing.py 33-44), about to run
NewThread(req, temp_dir) ==
  [pc |-> "run",
   file_path |-> req.file_path,
   archive_path |-> req.archive_path,
   selected_files_from_archive |-> req.selected_files,
   temp_dir |-> temp_dir,
   active_filter_loggers |-> active_filter_loggers,
   total_messages_loaded |-> 0,
   should_stop |-> FALSE,
   terminated |-> FALSE,
   all_entries |-> <<>>,
   failed_files |-> <<>>,
   i |-> 0,
   path_to_parse |-> DiskPath(""),
   parsing |-> "",
   enc |-> 1,
   line_number |-> 0,
   log_entries |-> <<>>,
   trace |-> <<>>]

\* run() has returned: its locals are gone, the object's attributes stay
Returned(th) ==
  [th EXCEPT !.pc = "done", !.all_entries = <<>>, !.failed_files = <<>>,
             !.i = 0, !.path_to_parse = DiskPath(""), !.parsing = "",
             !.enc = 1, !.line_number = 0, !.log_entries = <<>>]

\* ------------------------------------------------------------ the worker
\* thread t exists and its next statement is the one labelled pc
At(t, pc) == t \in DOMAIN threads /\ threads[t].pc = pc

\* name.endswith('.gz')
EndsWithGz(name) == name \in {"err.log.gz", "bad.log.gz"}

\* _process_single_file returns entries to its caller: _process_archive
\* extends all_entries (110-112) and goes on to the check of line 119; run
\* takes them as all_log_entries (58), after the finally clause (163-165).
SfReturn(th, entries) ==
  IF th.archive_path # ""
  THEN [th EXCEPT !.all_entries = @ \o entries,
                  !.total_messages_loaded = @ + Len(entries),
                  !.log_entries = <<>>,
                  !.pc = "member_stop_check"]
  ELSE [th EXCEPT !.all_entries = entries,
                  !.log_entries = <<>>,
                  !.trace = AddTrace(@, "progress"),
                  !.pc = "check_stop_63"]

\* a failing member that ends the loop over the members
SfRaise_aborting(t, th, reason) ==
  IF th.archive_path # ""
  THEN [th |-> [th EXCEPT !.failed_files =
                            Append(@, <<th.selected_files_from_archive[th.i],
                                        reason>>),
                          !.log_entries = <<>>,
                          !.pc = "check_stop_63"],
        sigs |-> <<>>]
  ELSE [th |-> Returned([th EXCEPT !.trace =
                           AddTrace(AddTrace(@, "progress"), "error")]),
        sigs |-> <<error_occurred(t, "Unexpected error during loading")>>]

\* _process_single_file raises (161-162): inside an archive the member is
\* recorded as failed (116-117) and the loop goes on; for a single file the
\* exception reaches run's handler (85-86), which emits error_occurred.
SfRaise(t, th, reason) ==
  IF th.archive_path # ""
  THEN [th |-> [th EXCEPT !.failed_files =
                            Append(@, <<th.selected_files_from_archive[th.i],
                                        reason>>),
                          !.log_entries = <<>>,
                          !.pc = "member_stop_check"],
        sigs |-> <<>>]
  ELSE [th |-> Returned([th EXCEPT !.trace =
                           AddTrace(AddTrace(@, "progress"), "error")]),
        sigs |-> <<error_occurred(t, "Unexpected error during loading")>>]

\* run, lines 46-58 and _process_archive, lines 88-97 and 123-125
RunBegin(t) ==
  /\ At(t, "run")
  /\ LET th == threads[t] IN
     IF ~DirExists(th.temp_dir)
     THEN /\ threads' = [threads EXCEPT ![t] =
                 Returned([th EXCEPT !.trace = AddTrace(@, "error")])]
          /\ queue' = Append(queue,
                 error_occurred(t, "Unexpected error during loading"))
     ELSE IF th.archive_path # ""
     THEN IF BadZipFile(th.archive_path)
          THEN /\ threads' = [threads EXCEPT ![t] =
                      [th EXCEPT !.trace =
                                   AddTrace(AddTrace(@, "progress"), "error"),
                                 !.pc = "check_stop_63"]]
               /\ queue' = Append(queue,
                      error_occurred(t, "Error opening archive"))
          ELSE /\ threads' = [threads EXCEPT ![t] =
                      [th EXCEPT !.trace = AddTrace(@, "progress"),
                                 !.i = 1,
                                 !.pc = "for_member"]]
               /\ queue' = queue
     ELSE /\ threads' = [threads EXCEPT ![t] =
                 [th EXCEPT !.trace = AddTrace(@, "progress"),
                            !.path_to_parse = DiskPath(th.file_path),
                            !.pc = "process_single_file"]]
          /\ queue' = queue
  /\ UNCHANGED <<tempfs, hostVars, sortVars, viewVars>>

\* _process_archive, lines 99-100: the loop head and its should_stop check;
\* leaving the loop runs line 121 and returns to run
ForMember(t) ==
  /\ At(t, "for_member")
  /\ LET th == threads[t] IN
     threads' = [threads EXCEPT ![t] =
       IF th.i > Len(th.selected_files_from_archive) \/ th.should_stop
       THEN [th EXCEPT !.trace = AddTrace(@, "progress"),
                       !.pc = "check_stop_63"]
       ELSE [th EXCEPT !.pc = "member_body"]]
  /\ UNCHANGED <<queue, tempfs, hostVars, sortVars, viewVars>>

\* _process_archive, lines 101-108 and 114-117: look the member up and
\* extract it into the temporary directory
MemberBody(t) ==
  /\ At(t, "member_body")
  /\ LET th == threads[t]
         filename == th.selected_files_from_archive[th.i]
     IN
     IF ~Source(filename).exists
     THEN /\ threads' = [threads EXCEPT ![t] =
                 [th EXCEPT !.trace = AddTrace(@, "progress"),
                            !.failed_files =
                               Append(@, <<filename, "File not found in archive.">>),
                            !.pc = "member_stop_check"]]
          /\ tempfs' = tempfs
     ELSE IF ~DirExists(th.temp_dir)
     THEN /\ threads' = [threads EXCEPT ![t] =
                 [th EXCEPT !.trace = AddTrace(@, "progress"),
                            !.failed_files =
                               Append(@, <<filename, "No such file or directory">>),
                            !.pc = "member_stop_check"]]
          /\ tempfs' = tempfs
     ELSE /\ threads' = [threads EXCEPT ![t] =
                 [th EXCEPT !.trace = AddTrace(@, "progress"),
                            !.path_to_parse =
                               TempPath(th.temp_dir, basename(filename)),
                            !.pc = "process_single_file"]]
          /\ tempfs' = WriteFile(th.temp_dir, basename(filename), filename)
  /\ UNCHANGED <<queue, hostVars, sortVars, viewVars>>

\* _process_single_file, lines 128-148: decompress a .gz source into the
\* temporary directory, then open the file to parse as utf-8
ProcessSingleFile(t) ==
  /\ At(t, "process_single_file")
  /\ LET th0 == threads[t]
         th == IF th0.archive_path = ""
               THEN [th0 EXCEPT !.trace = AddTrace(@, "progress")]
               ELSE th0
         from == th.path_to_parse
         gz == EndsWithGz(from.base)
         to == IF gz THEN TempPath(th.temp_dir, StripGz(from.base)) ELSE from
         canOpen == FileExists(from) /\ (gz => DirExists(th.temp_dir))
         fs1 == IF gz /\ canOpen
                THEN WriteFile(th.temp_dir, to.base,
                               IF Source(SourceOf(from)).gz_ok
                               THEN SourceOf(from) ELSE "")
                ELSE tempfs
         raised == SfRaise(t, th,
                     IF ~canOpen THEN "Error processing: No such file or directory"
                     ELSE "Error processing: Not a gzipped file")
     IN
     IF ~canOpen \/ (gz /\ ~Source(SourceOf(from)).gz_ok)
     THEN /\ threads' = [threads EXCEPT ![t] = raised.th]
          /\ queue' = queue \o raised.sigs
          /\ tempfs' = fs1
     ELSE /\ threads' = [threads EXCEPT ![t] =
                 [th EXCEPT !.trace = AddTrace(@, "progress"),
                            !.path_to_parse = to,
                            !.parsing = SourceOf(from),
                            !.enc = 1,
                            !.line_number = 0,
                            !.log_entries = <<>>,
                            !.pc = "parse_loop"]]
          /\ queue' = queue
          /\ tempfs' = fs1
  /\ UNCHANGED <<hostVars, sortVars, viewVars>>

\* the parse loop without the should_stop check of line 181
ParseLoop_unchecked(t) ==
  /\ At(t, "parse_loop")
  /\ LET th == threads[t]
         next == th.line_number + 1
         lines == Source(th.parsing).lines
     IN
     threads' = [threads EXCEPT ![t] =
       IF DecodeErrorAt(th.parsing, th.enc) = next
       THEN [th EXCEPT !.trace = IF th.enc = 1 THEN AddTrace(@, "progress") ELSE @,
                       !.enc = @ + 1,
                       !.log_entries = <<>>,
                       !.pc = "fallback_loop"]
       ELSE IF next > Len(lines)
       THEN SfReturn([th EXCEPT !.trace = AddTrace(@, "progress")],
                     th.log_entries)
       ELSE [th EXCEPT !.pc = "parse_body"]]
  /\ UNCHANGED <<queue, tempfs, hostVars, sortVars, viewVars>>

\* _parse_log_from_iterator, lines 180-181 and 217-219: read the next line
\* (decoding may raise, 149-150 and 157-158), then check should_stop
ParseLoop(t) ==
  /\ At(t, "parse_loop")
  /\ LET th == threads[t]
         next == th.line_number + 1
         lines == Source(th.parsing).lines
     IN
     threads' = [threads EXCEPT ![t] =
       IF DecodeErrorAt(th.parsing, th.enc) = next
       THEN [th EXCEPT !.trace = IF th.enc = 1 THEN AddTrace(@, "progress") ELSE @,
                       !.enc = @ + 1,
                       !.log_entries = <<>>,
                       !.pc = "fallback_loop"]
       ELSE IF next > Len(lines) \/ th.should_stop
       THEN SfReturn([th EXCEPT !.trace = AddTrace(@, "progress")],
                     th.log_entries)
       ELSE [th EXCEPT !.pc = "parse_body"]]
  /\ UNCHANGED <<queue, tempfs, hostVars, sortVars, viewVars>>

\* _parse_log_from_iterator, lines 182-215: handle the line just read
ParseBody(t) ==
  /\ At(t, "parse_body")
  /\ LET th == threads[t]
         n == th.line_number + 1
         entries == ParseLine(th.log_entries, Source(th.parsing).lines[n],
                              th.path_to_parse, n, th.active_filter_loggers)
         counted == Len(entries) > Len(th.log_entries) /\ Len(entries) % 1000 = 0
     IN
     threads' = [threads EXCEPT ![t] =
       [th EXCEPT !.line_number = n,
                  !.log_entries = entries,
                  !.trace = IF n % 500 = 0 \/ counted
                            THEN AddTrace(@, "progress") ELSE @,
                  !.pc = "parse_loop"]]
  /\ UNCHANGED <<queue, tempfs, hostVars, sortVars, viewVars>>

\* _process_single_file, lines 151-152 and 159: the head of the loop over
\* the fallback encodings and its should_stop check
FallbackLoop(t) ==
  /\ At(t, "fallback_loop")
  /\ LET th == threads[t]
         raised == SfRaise(t, th, "Error processing: Could not decode")
     IN
     IF th.enc > Len(encodings_to_try)
     THEN /\ threads' = [threads EXCEPT ![t] = raised.th]
          /\ queue' = queue \o raised.sigs
     ELSE /\ threads' = [threads EXCEPT ![t] =
                 IF th.should_stop THEN SfReturn(th, <<>>)
                 ELSE [th EXCEPT !.pc = "fallback_try"]]
          /\ queue' = queue
  /\ UNCHANGED <<tempfs, hostVars, sortVars, viewVars>>

\* _process_single_file, lines 153-156: open the file with the next encoding
FallbackTry(t) ==
  /\ At(t, "fallback_try")
  /\ LET th == threads[t]
         raised == SfRaise(t, th, "Error processing: No such file or directory")
     IN
     IF ~FileExists(th.path_to_parse)
     THEN /\ threads' = [threads EXCEPT ![t] = raised.th]
          /\ queue' = queue \o raised.sigs
     ELSE /\ threads' = [threads EXCEPT ![t] =
                 [th EXCEPT !.line_number = 0,
                            !.log_entries = <<>>,
                            !.pc = "parse_loop"]]
          /\ queue' = queue
  /\ UNCHANGED <<tempfs, hostVars, sortVars, viewVars>>

\* _process_archive, line 119: the should_stop check after a member
MemberStopCheck(t) ==
  /\ At(t, "member_stop_check")
  /\ LET th == threads[t] IN
     threads' = [threads EXCEPT ![t] =
       IF th.should_stop
       THEN [th EXCEPT !.trace = AddTrace(@, "progress"),
                       !.pc = "check_stop_63"]
       ELSE [th EXCEPT !.i = @ + 1, !.pc = "for_member"]]
  /\ UNCHANGED <<queue, tempfs, hostVars, sortVars, viewVars>>

\* run, lines 63-80: the first should_stop check, then the sort
CheckStop63(t) ==
  /\ At(t, "check_stop_63")
  /\ LET th == threads[t] IN
     threads' = [threads EXCEPT ![t] =
       IF th.should_stop
       THEN Returned([th EXCEPT !.trace = AddTrace(@, "cancelled")])
       ELSE IF th.all_entries # <<>>
       THEN [th EXCEPT !.trace = AddTrace(@, "progress"),
                       !.all_entries = SortEntries(@),
                       !.pc = "check_stop_82"]
       ELSE [th EXCEPT !.pc = "check_stop_82"]]
  /\ UNCHANGED <<queue, tempfs, hostVars, sortVars, viewVars>>

\* run, line 82: the second should_stop check
CheckStop82(t) ==
  /\ At(t, "check_stop_82")
  /\ LET th == threads[t] IN
     threads' = [threads EXCEPT ![t] =
       IF ~th.should_stop THEN [th EXCEPT !.pc = "emit_finished"]
       ELSE Returned(th)]
  /\ UNCHANGED <<queue, tempfs, hostVars, sortVars, viewVars>>

\* run, lines 83-84: build the DataFrame and emit finished_loading
EmitFinished(t) ==
  /\ At(t, "emit_finished")
  /\ LET th == threads[t] IN
     /\ threads' = [threads EXCEPT ![t] =
            Returned([th EXCEPT !.trace = AddTrace(@, "finished")])]
     /\ queue' = Append(queue,
            finished_loading(t, th.all_entries, th.failed_files))
  /\ UNCHANGED <<tempfs, hostVars, sortVars, viewVars>>

\* LogLoaderThread.stop
stop(t) == [threads EXCEPT ![t].should_stop = TRUE]

\* QThread.terminate() takes effect at some later point of the worker's
\* execution, or never, when the worker returns first
Kill(t) ==
  /\ t \in DOMAIN threads
  /\ threads[t].terminated
  /\ isRunning(t)
  /\ threads' = [threads EXCEPT ![t] = [Returned(@) EXCEPT !.pc = "killed"]]
  /\ UNCHANGED <<queue, tempfs, hostVars, sortVars, viewVars>>

\* -------------------------------------------------------------- the host
\* the handler the host is blocked in, "idle" in the main event loop
Blocked == IF hstack = <<>> THEN "idle" ELSE Head(hstack)

NoFiles == [b \in {} |-> ""]

\* _cleanup_temp_dir (683-686): the directories left after
\* shutil.rmtree(self.current_temp_dir); the caller sets current_temp_dir
\* to None
cleanup_temp_dir_skipped == tempfs

cleanup_temp_dir ==
  [d \in DOMAIN tempfs \ {current_temp_dir} |-> tempfs[d]]

\* The assignment of line 347 drops the host's reference to the previous
\* LogLoaderThread: an object that is not running is collected.
Collected ==
  [NewThread([file_path |-> "", archive_path |-> "", selected_files |-> <<>>], 0)
     EXCEPT !.pc = "collected"]

DropReference(ths) ==
  [t \in DOMAIN ths |->
     IF ths[t].pc \in {"done", "killed"} THEN Collected ELSE ths[t]]

\* starting a load without the clean-up of line 328
StartWorker_without_cleanup(req) ==
  /\ Len(threads) < loadLimit
  /\ LET t == Len(threads) + 1 IN
     /\ tempfs' = (t :> NoFiles) @@ tempfs
     /\ current_temp_dir' = t
     /\ threads' = Append(DropReference(threads), NewThread(req, t))
     /\ loader_thread' = t
  /\ UNCHANGED <<queue, log_entries_full, hstack, closed, lastStore, sortVars, viewVars>>

\* _initiate_loading_process (319-369) without the check of lines 324-326:
\* clean up, make the new directory, create and start the worker
StartWorker(req) ==
  /\ Len(threads) < loadLimit
  /\ LET t == Len(threads) + 1 IN
     /\ tempfs' = (t :> NoFiles) @@ cleanup_temp_dir
     /\ current_temp_dir' = t
     /\ threads' = Append(DropReference(threads), NewThread(req, t))
     /\ loader_thread' = t
  /\ UNCHANGED <<queue, log_entries_full, hstack, closed, lastStore, sortVars, viewVars>>

\* the load request without the check of lines 324-326
initiate_loading_process_unguarded(req) ==
  /\ ~closed
  /\ hstack = <<>>
  /\ StartWorker(req)

\* _initiate_loading_process (319-369), called by load_log_file,
\* load_log_archive and open_recent_file while no modal dialog is open
initiate_loading_process(req) ==
  /\ ~closed
  /\ hstack = <<>>
  /\ IF loader_thread # 0 /\ isRunning(loader_thread)
     THEN /\ hstack' = <<"busy_msgbox">>
          /\ UNCHANGED <<threads, queue, tempfs, loader_thread,
                         current_temp_dir, log_entries_full, closed,
                         lastStore, sortVars, viewVars>>
     ELSE StartWorker(req)

\* _initiate_loading_process, lines 325-326: the "Loading in Progress"
\* message box is closed and the handler returns
warning_closed ==
  /\ Blocked = "busy_msgbox"
  /\ hstack' = Tail(hstack)
  /\ UNCHANGED <<threads, queue, tempfs, loader_thread, current_temp_dir,
                 log_entries_full, closed, lastStore, sortVars, viewVars>>

\* a queued signal is delivered when the event loop runs: the main loop, or
\* the nested loop of a modal QMessageBox (lines 325 and 511)
CanDeliver ==
  /\ ~closed
  /\ queue # <<>>
  /\ Blocked \in {"idle", "err_msgbox", "busy_msgbox"}

\* the slot of finished_loading adding the entries to the LogStore in place
on_log_data_loaded_in_place ==
  /\ CanDeliver
  /\ Head(queue).sig = "finished_loading"
  /\ queue' = Tail(queue)
  /\ log_entries_full' = log_entries_full \o Head(queue).entries
  /\ lastStore' = [by |-> "on_log_data_loaded", id |-> Head(queue).id,
                   had |-> log_entries_full # <<>>]
  /\ UNCHANGED <<threads, tempfs, loader_thread, current_temp_dir, hstack,
                 closed, sortVars, viewVars>>

\* on_log_data_loaded (459-495), the slot of finished_loading
on_log_data_loaded ==
  /\ CanDeliver
  /\ Head(queue).sig = "finished_loading"
  /\ queue' = Tail(queue)
  /\ log_entries_full' = Head(queue).entries
  /\ lastStore' = [by |-> "on_log_data_loaded", id |-> Head(queue).id,
                   had |-> log_entries_full # <<>>]
  /\ UNCHANGED <<threads, tempfs, loader_thread, current_temp_dir, hstack,
                 closed, sortVars, viewVars>>

\* on_load_error (497-499) and reset_app_state_after_error, lines 503-508:
\* ask a running worker to stop and wait for it
on_load_error ==
  /\ CanDeliver
  /\ Head(queue).sig = "error_occurred"
  /\ queue' = Tail(queue)
  /\ IF loader_thread # 0 /\ isRunning(loader_thread)
     THEN /\ threads' = stop(loader_thread)
          /\ hstack' = <<"err_wait">> \o hstack
     ELSE /\ threads' = threads
          /\ hstack' = <<"err_msgbox">> \o hstack
  /\ UNCHANGED <<tempfs, loader_thread, current_temp_dir, log_entries_full,
                 closed, lastStore, sortVars, viewVars>>

\* reset_app_state_after_error, lines 508-511: wait(1000) returns True, the
\* worker has finished; the message box opens
ErrorWaitReturns ==
  /\ Blocked = "err_wait"
  /\ ~isRunning(loader_thread)
  /\ hstack' = <<"err_msgbox">> \o Tail(hstack)
  /\ UNCHANGED <<threads, queue, tempfs, loader_thread, current_temp_dir,
                 log_entries_full, closed, lastStore, sortVars, viewVars>>

\* reset_app_state_after_error, lines 508-511: wait(1000) times out and the
\* worker is terminated; the message box opens
ErrorWaitTimesOut ==
  /\ Blocked = "err_wait"
  /\ isRunning(loader_thread)
  /\ threads' = [threads EXCEPT ![loader_thread].terminated = TRUE]
  /\ hstack' = <<"err_msgbox">> \o Tail(hstack)
  /\ UNCHANGED <<queue, tempfs, loader_thread, current_temp_dir,
                 log_entries_full, closed, lastStore, sortVars, viewVars>>

\* reset_app_state_after_error, lines 513-521: the message box is closed,
\* the temporary directory removed and the LogStore emptied
reset_app_state_after_error ==
  /\ Blocked = "err_msgbox"
  /\ hstack' = Tail(hstack)
  /\ tempfs' = cleanup_temp_dir
  /\ current_temp_dir' = 0
  /\ log_entries_full' = <<>>
  /\ lastStore' = [by |-> "reset_app_state_after_error", id |-> 0,
                   had |-> log_entries_full # <<>>]
  /\ UNCHANGED <<threads, queue, loader_thread, closed, sortVars, viewVars>>

\* closeEvent, lines 723-727: clean up; the process ends and with it every
\* thread
CloseWindow(ths) ==
  /\ tempfs' = cleanup_temp_dir
  /\ current_temp_dir' = 0
  /\ closed' = TRUE
  /\ hstack' = <<>>
  /\ threads' = [t \in DOMAIN ths |->
                   IF ths[t].pc \in {"done", "killed", "collected"} THEN ths[t]
                   ELSE [Returned(ths[t]) EXCEPT !.pc = "killed"]]
  /\ UNCHANGED <<queue, loader_thread, log_entries_full, lastStore, sortVars, viewVars>>

\* closeEvent (718-727): with a running worker, stop it and wait
closeEvent ==
  /\ ~closed
  /\ hstack = <<>>
  /\ IF loader_thread # 0 /\ isRunning(loader_thread)
     THEN /\ threads' = stop(loader_thread)
          /\ hstack' = <<"close_wait">>
          /\ UNCHANGED <<queue, tempfs, loader_thread, current_temp_dir,
                         log_entries_full, closed, lastStore,
                         sortVars, viewVars>>
     ELSE CloseWindow(threads)

\* closeEvent, lines 721-723: wait(1500) returns True
CloseWaitReturns ==
  /\ Blocked = "close_wait"
  /\ ~isRunning(loader_thread)
  /\ CloseWindow(threads)

\* closeEvent, lines 721-723: wait(1500) times out, the worker is terminated
CloseWaitTimesOut ==
  /\ Blocked = "close_wait"
  /\ isRunning(loader_thread)
  /\ CloseWindow([threads EXCEPT ![loader_thread].terminated = TRUE])

\* ------------------------------------------------------- parse and sort
\* the entries of a source whose lines are all read (the parse loop run to
\* the end of the file)
RECURSIVE ParseLines(_, _, _, _)
ParseLines(lines, source_name, n, prefixes) ==
  IF n = 0 THEN <<>>
  ELSE ParseLine(ParseLines(lines, source_name, n - 1, prefixes),
                 lines[n], source_name, n, prefixes)

\* the lines a source can consist of
Lines == {HeaderLine(ts, Auth) : ts \in RawTimestamps} \cup {ContinuationLine}

LineSeqs(n) == UNION {[1..k -> Lines] : k \in 0..n}

\* two sources, processed one after the other, of at most MaxSortLen lines
\* together
SortInputs ==
  {<<a, b>> : a \in LineSeqs(MaxSortLen) \ {<<>>}, b \in LineSeqs(MaxSortLen - 1)}
  \cap {in \in Seq(LineSeqs(MaxSortLen)) :
          Len(in[1]) + Len(in[2]) <= MaxSortLen}

\* the temporary path of the k-th source
SortPath(k) == TempPath(1, IF k = 1 THEN "app.log" ELSE "err.log")

\* run, lines 55 and 67-80 with _process_archive, lines 110-111: the
\* entries of the sources, each read to its end, are merged and sorted
ParseAndSort ==
  /\ sortIn # <<>>
  /\ sortOut = <<>>
  /\ sortOut' = SortEntries(
        ParseLines(sortIn[1], SortPath(1), Len(sortIn[1]), {})
        \o ParseLines(sortIn[2], SortPath(2), Len(sortIn[2]), {}))
  /\ UNCHANGED <<threads, queue, tempfs, hostVars, loadLimit, sortIn,
                 viewVars>>

\* ------------------------------------------------------------- strings
\* Texts are sequences of characters.
\* str.lower, for the capitals the model uses
lower_char(c) ==
  CASE c = "A" -> "a"
    [] c = "N" -> "n"
    [] c = "U" -> "u"
    [] c = "D" -> "d"
    [] OTHER -> c

lower(s) == [k \in 1..Len(s) |-> lower_char(s[k])]

\* `sub in s`, and Series.str.contains(sub, regex=False)
contains(s, sub) ==
  \E k \in 0..(Len(s) - Len(sub)) : SubSeq(s, k + 1, k + Len(sub)) = sub

\* str.strip, for blanks
RECURSIVE rstrip(_)
rstrip(s) ==
  IF s # <<>> /\ s[Len(s)] = " " THEN rstrip(SubSeq(s, 1, Len(s) - 1)) ELSE s

RECURSIVE lstrip(_)
lstrip(s) == IF s # <<>> /\ Head(s) = " " THEN lstrip(Tail(s)) ELSE s

strip(s) == lstrip(rstrip(s))

\* str.split(): the maximal runs of characters that are no blanks
RECURSIVE split(_)
split(s) ==
  IF s = <<>> THEN <<>>
  ELSE LET init == SubSeq(s, 1, Len(s) - 1)
           c == s[Len(s)]
           words == split(init)
       IN IF c = " " THEN words
          ELSE IF init # <<>> /\ init[Len(init)] # " "
               THEN [words EXCEPT ![Len(words)] = Append(@, c)]
               ELSE Append(words, <<c>>)

\* ------------------------------------------------------- the LogStore
\* The keys of selected_log_levels (app_logic.py 19).
Levels == {"INFO", "WARN", "ERROR", "DEBUG"}

\* The entry of a matching line with all its columns (log_processing.py
\* 195-211): log_level and message_preview besides those of MakeEntry.
Row(ts, lvl, lgr, msg_content, source_name, line_number) ==
  LET entry == MakeEntry(HeaderLine(ts, lgr), source_name, line_number)
  IN [datetime |-> entry.datetime,
      datetime_obj |-> entry.datetime_obj,
      log_level |-> lvl,
      logger_name |-> entry.logger_name,
      source_file_path |-> entry.source_file_path,
      line_number |-> entry.line_number,
      message_preview |-> strip(msg_content)]

\* The entries the stores of the filter specification are made of: two
\* members of one archive, the later entry in the member whose path is the
\* smaller, and one entry whose timestamp is no date.
StoreRows ==
  <<Row("2024-01-01 10:00:00", "INFO", Net, <<"d", "b">>,
        TempPath(1, "err.log"), 1),
    Row("2024-01-01 10:00:01", "INFO", Auth, <<"u", "p", " ">>,
        TempPath(1, "app.log"), 1),
    Row("2024-13-01 10:00:00", "ERROR", Auth, <<"d", "b", " ", "u", "p">>,
        TempPath(1, "err.log"), 2)>>

\* The LogStores a load can hand over: the entries of run() in either
\* ingestion order, sorted by run() (lines 67-80).
FilterStores ==
  {SortEntries(rows) :
     rows \in {r \in UNION {[1..n -> {StoreRows[k] : k \in 1..Len(StoreRows)}] :
                              n \in 0..MaxStoreLen} :
                 \A a, b \in 1..Len(r) : a # b => r[a] # r[b]}}

\* The results handed to the message list: selections of the rows of the
\* store and of one more row, in the order of the store.
PageRows ==
  StoreRows \o <<Row("2024-01-01 10:00:01", "WARN", Net, <<"u", "p">>, TempPath(1, "app.log"), 2)>>

PageStores ==
  {SortEntries(rows) :
     rows \in {r \in UNION {[1..n -> {PageRows[k] : k \in 1..Len(PageRows)}] :
                              n \in 0..MaxPageLen} :
                 \A a, b \in 1..Len(r) : a # b => r[a] # r[b]}}

\* the order of two paths as strings, through the order of their names
PathRank(path) == IF path.base = "app.log" THEN 1 ELSE 2

\* ------------------------------------------------------- SearchEngine
\* The object after __init__ (7-9): no connection, nothing indexed. logs is
\* the FTS table of the connection, row id k at position k.
SearchEngineInit == [open |-> FALSE, logs |-> <<>>, is_indexed |-> FALSE]

\* index_data returning at once for an empty list
index_data_keeps_flag(engine, messages) ==
  IF messages = <<>> THEN engine
  ELSE [open |-> TRUE, logs |-> messages, is_indexed |-> TRUE]

\* SearchEngine.index_data (11-42)
index_data(engine, messages) ==
  IF messages = <<>> THEN [engine EXCEPT !.is_indexed = FALSE]
  ELSE [open |-> TRUE, logs |-> messages, is_indexed |-> TRUE]

\* SearchEngine.close (76-81)
close(engine) == IF engine.open THEN SearchEngineInit ELSE engine

\* FTS5 MATCH of the query built in lines 59-64: every term but the last is
\* a token of the message, the last term is the prefix of a token; tokens
\* and terms are compared without case.
fts_match(log_message, terms) ==
  LET tokens == split(lower(log_message)) IN
  \A k \in 1..Len(terms) :
    \E n \in 1..Len(tokens) :
      IF k = Len(terms) THEN startswith(tokens[n], lower(terms[k]))
      ELSE tokens[n] = lower(terms[k])

\* SearchEngine.search (44-74): the 0-based indices of the matching rows
search(engine, query) ==
  IF ~engine.is_indexed \/ query = <<>> THEN {}
  ELSE LET terms == split(query) IN
       IF terms = <<>> THEN {}
       ELSE {rowid - 1 : rowid \in {r \in 1..Len(engine.logs) :
                                      fts_match(engine.logs[r], terms)}}

\* SearchEngine.search raises: self.conn.cursor() (67) with conn None is an
\* AttributeError, and only sqlite3.OperationalError is caught (72)
search_raises(engine, query) ==
  /\ engine.is_indexed
  /\ query # <<>>
  /\ split(query) # <<>>
  /\ ~engine.open

\* what the calls of the engine on its own leave alone
IndexFrame ==
  UNCHANGED <<threads, queue, tempfs, hostVars, sortVars, selected_log_levels,
              timeline_filter, current_search_text, global_search_query,
              global_search_timer, message_type_search_input,
              message_type_search_timer, search_input, search_timer,
              message_types_tree, pageVars, active_filter_loggers,
              source_lines, parsed_entries, full_entry, infolist, file_items>>

\* a call of index_data
build_index(messages) ==
  /\ search_engine' = index_data(search_engine, messages)
  /\ index_built_from' = [op |-> "index_data", messages |-> messages]
  /\ UNCHANGED matching_indices
  /\ IndexFrame

\* a call of close
clear_index ==
  /\ search_engine' = close(search_engine)
  /\ index_built_from' = [op |-> "close", messages |-> <<>>]
  /\ UNCHANGED matching_indices
  /\ IndexFrame

\* a call of search: what it returned, or that it raised
query_index(query) ==
  /\ matching_indices' =
       [done |-> TRUE, query |-> query, built_from |-> index_built_from,
        raised |-> search_raises(search_engine, query),
        rows |-> IF search_raises(search_engine, query) THEN {}
                 ELSE search(search_engine, query)]
  /\ UNCHANGED <<search_engine, index_built_from>>
  /\ IndexFrame

\* AppLogic.set_full_log_data, lines 61-88: the messages in the order of
\* df.groupby('source_file_path'), group after group in the order of the
\* paths, the rows of a group in the order of the DataFrame
messages_to_index(df) ==
  LET group(k) ==
        SelectSeq(df, LAMBDA r : PathRank(r.entry.source_file_path) = k)
      grouped == group(1) \o group(2)
  IN [n \in 1..Len(grouped) |-> grouped[n].entry.message_preview]

\* ------------------------------------------------------------ AppLogic
\* Python's None, the value of timeline_filter_start_time and _end_time
\* while no window was chosen (lines 22-23)
None == ValueError - 1

\* a DataFrame made of a list of entries: the rows carry the labels 0..n-1
\* of the RangeIndex, which filtering keeps
DataFrame(entries) ==
  [i \in 1..Len(entries) |-> [index |-> i - 1, entry |-> entries[i]]]

\* DataFrame.to_dict('records')
to_dict(df) == [i \in 1..Len(df) |-> df[i].entry]

\* df['logger_name'].value_counts(): category -> number of rows
value_counts(df) ==
  [c \in {df[i].entry.logger_name : i \in 1..Len(df)} |->
     Cardinality({i \in 1..Len(df) : df[i].entry.logger_name = c})]

\* set_check_state_for_visible_types (670-680); nothing happens while the
\* window is in a batch update.
set_check_state_for_visible_types(tree, check_state, is_batch_updating_ui) ==
  IF is_batch_updating_ui THEN tree
  ELSE [c \in DOMAIN tree |->
          IF tree[c].hidden THEN tree[c]
          ELSE [tree[c] EXCEPT !.checked = check_state]]

\* set_check_state_for_all_types (658-668)
set_check_state_for_all_types(tree, check_state, is_batch_updating_ui) ==
  IF is_batch_updating_ui THEN tree
  ELSE [c \in DOMAIN tree |-> [tree[c] EXCEPT !.checked = check_state]]

\* the rows of the store whose level is selected (257-258, 628-629)
isin_selected_levels(store, levels) ==
  SelectSeq(DataFrame(store), LAMBDA r : r.entry.log_level \in levels)

\* _rebuild_message_types_data_and_list (252-292) for the rows
\* df_to_process: the counts of the categories, restricted to the names
\* that contain the text of the category search box, every item unchecked
\* and shown; then select-all-visible, which is called in a batch update
\* by both callers that ask for it.
rebuild_message_types_data_and_list(df_to_process, type_text, select_all_visible, is_batch_updating_ui) ==
  LET logger_counts_series == value_counts(df_to_process)
      search_text == lower(type_text)
      listed == {c \in DOMAIN logger_counts_series :
                   search_text = <<>> \/ contains(lower(c), search_text)}
      tree == [c \in listed |-> [count |-> logger_counts_series[c],
                                 checked |-> FALSE, hidden |-> FALSE]]
  IN IF select_all_visible
     THEN set_check_state_for_visible_types(tree, TRUE, is_batch_updating_ui)
     ELSE tree

\* The five stages of _apply_filters_and_update_views.
\* 1. full-text search (431-434)
stage1(df, engine, query) ==
  IF query # <<>> /\ engine.is_indexed
  THEN SelectSeq(df, LAMBDA r : r.index \in search(engine, query))
  ELSE df

\* 2. log level (436-439)
stage2(df, levels) ==
  IF Cardinality(levels) < Cardinality(Levels)
  THEN SelectSeq(df, LAMBDA r : r.entry.log_level \in levels)
  ELSE df

\* 3. time window (441-446)
stage3(df, tf) ==
  IF tf.active /\ tf.start # None /\ tf.end # None
  THEN SelectSeq(df, LAMBDA r : /\ r.entry.datetime_obj >= tf.start
                                /\ r.entry.datetime_obj < tf.end)
  ELSE df

\* the checked items of the tree, hidden or not (454-461)
selected_types(tree) == {c \in DOMAIN tree : tree[c].checked}

\* stage 4 without the test of line 463
stage4_always(df, tree) ==
  SelectSeq(df, LAMBDA r : r.entry.logger_name \in selected_types(tree))

\* 4. selected message types (453-464)
stage4(df, tree) ==
  IF selected_types(tree) # {}
  THEN SelectSeq(df, LAMBDA r : r.entry.logger_name \in selected_types(tree))
  ELSE df

\* 5. substring of the preview, without case (466-469)
stage5(df, text) ==
  IF text # <<>>
  THEN SelectSeq(df, LAMBDA r : contains(lower(r.entry.message_preview),
                                         lower(text)))
  ELSE df

\* the frame after stage 3, the source of the category list (448-451)
stages123(store, engine, query, levels, tf) ==
  stage3(stage2(stage1(DataFrame(store), engine, query), levels), tf)

\* the tree rebuilt after stage 4 instead of before it
tree_after_apply_late(store, engine, query, levels, tf, type_text, tree, refresh_filter_categories) ==
  IF store = <<>>
  THEN rebuild_message_types_data_and_list(<<>>, type_text, FALSE, FALSE)
  ELSE IF refresh_filter_categories
       THEN rebuild_message_types_data_and_list(
              stage4(stages123(store, engine, query, levels, tf), tree),
              type_text, FALSE, FALSE)
       ELSE tree

\* the tree _apply_filters_and_update_views leaves (422-426, 450-451)
tree_after_apply(store, engine, query, levels, tf, type_text, tree, refresh_filter_categories) ==
  IF store = <<>>
  THEN rebuild_message_types_data_and_list(<<>>, type_text, FALSE, FALSE)
  ELSE IF refresh_filter_categories
       THEN rebuild_message_types_data_and_list(
              stages123(store, engine, query, levels, tf),
              type_text, FALSE, FALSE)
       ELSE tree

\* the list with stage 4 reading the tree as it was before the refresh
filtered_entries_list_old_tree(store, engine, query, levels, tf, text, type_text, tree, refresh_filter_categories) ==
  IF store = <<>> THEN <<>>
  ELSE to_dict(stage5(stage4(stages123(store, engine, query, levels, tf),
                             tree),
                      text))

\* the list _apply_filters_and_update_views gives to the message list
\* (424, 472-477)
filtered_entries_list(store, engine, query, levels, tf, text, type_text, tree, refresh_filter_categories) ==
  IF store = <<>> THEN <<>>
  ELSE to_dict(stage5(stage4(stages123(store, engine, query, levels, tf),
                             tree_after_apply(store, engine, query, levels,
                                              tf, type_text, tree,
                                              refresh_filter_categories)),
                      text))

\* --------------------------------------------------- VirtualTreeWidget
\* The order of the characters of the model by code point.
ord(c) ==
  CASE c = " " -> 0
    [] c = "A" -> 1
    [] c = "D" -> 2
    [] c = "N" -> 3
    [] c = "U" -> 4
    [] c = "a" -> 5
    [] c = "b" -> 6
    [] c = "d" -> 7
    [] c = "e" -> 8
    [] c = "h" -> 9
    [] c = "n" -> 10
    [] c = "p" -> 11
    [] c = "t" -> 12
    [] c = "u" -> 13
    [] OTHER -> 14

\* a < b for two str objects
RECURSIVE str_lt(_, _)
str_lt(a, b) ==
  IF b = <<>> THEN FALSE
  ELSE IF a = <<>> THEN TRUE
       ELSE IF Head(a) = Head(b) THEN str_lt(Tail(a), Tail(b))
            ELSE ord(Head(a)) < ord(Head(b))

\* The order of the timestamp strings of the model, and of the lowercased
\* level names, as str objects.
datetime_str_rank(dt_str) ==
  CASE dt_str = "0001-01-01 00:00:00" -> 1
    [] dt_str = "2024-01-01 10:00:00" -> 2
    [] dt_str = "2024-01-01 10:00:01" -> 3
    [] dt_str = "2024-13-01 10:00:00" -> 4
    [] OTHER -> 5

level_rank(log_level) ==
  CASE log_level = "DEBUG" -> 1
    [] log_level = "ERROR" -> 2
    [] log_level = "INFO" -> 3
    [] OTHER -> 4

\* str(dt_obj) of a datetime: the text strptime reads it from
str_of_datetime(dt_obj) == CHOOSE s \in RawTimestamps : strptime(s) = dt_obj

\* get_value_for_sort (131-149), column 0: the key is the datetime object
\* when it is no datetime.min, else the string of the entry.
key_is_datetime(item) == item.datetime_obj # DatetimeMin

\* list.sort raises TypeError when it compares a datetime with a str
raises_TypeError(items, col_idx) ==
  /\ col_idx = 0
  /\ \E a, b \in 1..Len(items) :
       key_is_datetime(items[a]) /\ ~key_is_datetime(items[b])

\* key(a) < key(b) for get_value_for_sort of column col_idx; as_str says
\* that the keys are compared as str(key).lower() (line 154).
key_lt(a, b, col_idx, as_str) ==
  CASE col_idx = 0 ->
         IF as_str
         THEN LET s(x) == IF key_is_datetime(x)
                          THEN str_of_datetime(x.datetime_obj)
                          ELSE x.datetime
              IN datetime_str_rank(s(a)) < datetime_str_rank(s(b))
         ELSE IF key_is_datetime(a)
              THEN a.datetime_obj < b.datetime_obj
              ELSE datetime_str_rank(a.datetime) < datetime_str_rank(b.datetime)
    [] col_idx = 1 -> level_rank(a.log_level) < level_rank(b.log_level)
    [] col_idx = 2 -> str_lt(lower(a.logger_name), lower(b.logger_name))
    [] OTHER -> str_lt(lower(a.message_preview), lower(b.message_preview))

\* a has to stand before b in the sorted list
sorts_before(a, b, col_idx, reverse_sort, as_str) ==
  IF reverse_sort THEN key_lt(b, a, col_idx, as_str)
  ELSE key_lt(a, b, col_idx, as_str)

\* list.sort(key, reverse): stable in both directions
RECURSIVE insert_item(_, _, _, _, _)
insert_item(e, sorted, col_idx, reverse_sort, as_str) ==
  IF sorted = <<>> THEN <<e>>
  ELSE IF sorts_before(e, Head(sorted), col_idx, reverse_sort, as_str)
       THEN <<e>> \o sorted
       ELSE <<Head(sorted)>> \o
            insert_item(e, Tail(sorted), col_idx, reverse_sort, as_str)

RECURSIVE list_sort(_, _, _, _)
list_sort(items, col_idx, reverse_sort, as_str) ==
  IF items = <<>> THEN <<>>
  ELSE insert_item(items[Len(items)],
                   list_sort(SubSeq(items, 1, Len(items) - 1),
                             col_idx, reverse_sort, as_str),
                   col_idx, reverse_sort, as_str)

\* the orders a list can be left in by a sort that raised
reorderings(items) ==
  {[k \in 1..Len(items) |-> items[f[k]]] :
     f \in {g \in [1..Len(items) -> 1..Len(items)] :
              \A a, b \in 1..Len(items) : a # b => g[a] # g[b]}}

\* _sort_filtered_data (123-154): the lists the sort can leave. A sort
\* that raises TypeError leaves the list in an order the implementation
\* chooses, and the second sort is stable for that order.
sort_filtered_data(items, sort) ==
  IF items = <<>> \/ sort.column = -1 THEN {items}
  ELSE LET reverse_sort == (sort.order = "DescendingOrder") IN
       IF raises_TypeError(items, sort.column)
       THEN {list_sort(left, sort.column, reverse_sort, TRUE) :
               left \in reorderings(items)}
       ELSE {list_sort(items, sort.column, reverse_sort, FALSE)}

\* _load_more_items without the count of line 227
load_more_items_same_page(filtered, visible, page) ==
  LET start_idx == page * items_per_page
      n == Len(filtered)
      end_idx == IF start_idx + items_per_page < n
                 THEN start_idx + items_per_page ELSE n
  IN IF start_idx >= n
     THEN [visible_items |-> visible, current_page |-> page]
     ELSE [visible_items |-> visible \o SubSeq(filtered, start_idx + 1, end_idx),
           current_page |-> page]

\* _load_more_items (190-227)
load_more_items(filtered, visible, page) ==
  LET start_idx == page * items_per_page
      n == Len(filtered)
      end_idx == IF start_idx + items_per_page < n
                 THEN start_idx + items_per_page ELSE n
  IN IF start_idx >= n
     THEN [visible_items |-> visible, current_page |-> page]
     ELSE [visible_items |-> visible \o SubSeq(filtered, start_idx + 1, end_idx),
           current_page |-> page + 1]

\* _refresh_visible_items (184-188)
refresh_visible_items(filtered) == load_more_items(filtered, <<>>, 0)

\* set_all_items_data (119-121) with apply_search_filter (163-182), whose
\* search_filter is the empty text from the construction on
set_all_items_data(items_data) ==
  /\ all_items_data' = items_data
  /\ filtered_items_data' \in sort_filtered_data(items_data, current_sort)
  /\ visible_items' = refresh_visible_items(filtered_items_data').visible_items
  /\ current_page' = refresh_visible_items(filtered_items_data').current_page
  /\ UNCHANGED current_sort

\* on_sort_indicator_changed without the refresh of lines 160-161
on_sort_indicator_changed_kept(logical_index, order) ==
  /\ current_sort' = [column |-> logical_index, order |-> order]
  /\ filtered_items_data' \in
       sort_filtered_data(filtered_items_data, current_sort')
  /\ UNCHANGED <<visible_items, current_page>>
  /\ UNCHANGED <<all_items_data, filterVars, log_entries_full, loadLimit,
                 loaderVars>>

\* on_sort_indicator_changed (156-161)
on_sort_indicator_changed(logical_index, order) ==
  /\ current_sort' = [column |-> logical_index, order |-> order]
  /\ filtered_items_data' \in
       sort_filtered_data(filtered_items_data, current_sort')
  /\ visible_items' = refresh_visible_items(filtered_items_data').visible_items
  /\ current_page' = refresh_visible_items(filtered_items_data').current_page
  /\ UNCHANGED <<all_items_data, filterVars, log_entries_full, loadLimit,
                 loaderVars>>

\* _on_scroll (229-234) for a scroll bar whose range ends at maximum
on_scroll(maximum, value) ==
  /\ IF /\ maximum > 0
        /\ value * 10 >= maximum * 8
        /\ Len(visible_items) < Len(filtered_items_data)
     THEN LET more == load_more_items(filtered_items_data, visible_items,
                                      current_page)
          IN /\ visible_items' = more.visible_items
             /\ current_page' = more.current_page
     ELSE UNCHANGED <<visible_items, current_page>>
  /\ UNCHANGED <<all_items_data, filtered_items_data, current_sort,
                 filterVars, log_entries_full, loadLimit, loaderVars>>

\* a new result given to the message list, as _apply_filters_and_update_views
\* does in line 477
new_result(items_data) ==
  /\ set_all_items_data(items_data)
  /\ UNCHANGED <<filterVars, log_entries_full, loadLimit, loaderVars>>

\* ------------------------------------------------ handlers of AppLogic
\* The texts typed into the full-text box, the substring box and the
\* category search box, and the windows a click on the timeline can send.
GlobalSearchTexts == {<<>>, <<"d", "b", " ">>}
SearchTexts == {<<>>, <<"U", "p", " ">>}
TypeSearchTexts == {<<>>, <<"N", "e">>}
TimeWindows == {<<DatetimeMin, 2>>, <<1, 2>>}
LevelButtons == {"INFO", "ERROR"}

\* the first row of df that has category c
first_occurrence(df, c) ==
  CHOOSE i \in 1..Len(df) :
    /\ df[i].entry.logger_name = c
    /\ \A j \in 1..(i - 1) : df[j].entry.logger_name # c

\* df['logger_name'].value_counts().nlargest(top_n) (line 635): the
\* categories in the order of falling counts, equal counts in the order
\* of their first rows (value_counts keeps it, nlargest keeps the first)
nlargest(df, top_n) ==
  LET counts == value_counts(df)
      ahead(d, c) == \/ counts[d] > counts[c]
                     \/ /\ counts[d] = counts[c]
                        /\ first_occurrence(df, d) < first_occurrence(df, c)
  IN {c \in DOMAIN counts :
        Cardinality({d \in DOMAIN counts : ahead(d, c)}) < top_n}

\* _select_top_n_types_logic (623-650): the tree it leaves
select_top_n_types_logic(store, levels, tree, top_n) ==
  LET df == isin_selected_levels(store, levels) IN
  IF store = <<>> \/ df = <<>> THEN tree
  ELSE [c \in DOMAIN tree |->
          [tree[c] EXCEPT !.checked = (c \in nlargest(df, top_n))]]

\* reset_all_filters_and_view (142-196) for the store given: the filters
\* are reset, the two search boxes are cleared (the substring box with
\* its signal, which starts its timer when there was a text), the tree is
\* rebuilt twice (162 in the batch update, then 187 with the full-text
\* query still applied), the result is published, and on an initial load
\* the Top 10 button is clicked.
reset_all_filters_and_view(store, initial_load) ==
  LET no_window == [active |-> FALSE, start |-> None, end |-> None]
      tree162 == rebuild_message_types_data_and_list(
                   isin_selected_levels(store, Levels), <<>>, TRUE, TRUE)
      tree187 == tree_after_apply(store, search_engine, global_search_query,
                                  Levels, no_window, <<>>, tree162, TRUE)
  IN /\ selected_log_levels' = Levels
     /\ timeline_filter' = no_window
     /\ current_search_text' = <<>>
     /\ message_type_search_input' = <<>>
     /\ search_input' = <<>>
     /\ search_timer' = (search_timer \/ search_input # <<>>)
     /\ set_all_items_data(
          filtered_entries_list(store, search_engine, global_search_query,
                                Levels, no_window, <<>>, <<>>, tree162, TRUE))
     /\ message_types_tree' =
          IF initial_load
          THEN select_top_n_types_logic(store, Levels, tree187, Top10)
          ELSE tree187
     /\ UNCHANGED <<global_search_query, global_search_timer, search_engine,
                    message_type_search_timer>>

\* on_log_data_loaded (iobeya_log_analyzer.py 459-476) for the message
\* list and the filters: the store is replaced, the filters are reset as
\* for an initial load and the Top 10 categories are selected (again).
\* The filter specification follows the window up to the display of its
\* first load that has entries.
display_loaded_data(log_entries_df) ==
  /\ log_entries_full = <<>>
  /\ log_entries_full' = log_entries_df
  /\ reset_all_filters_and_view(log_entries_df, TRUE)
  /\ UNCHANGED <<loadLimit, loaderVars>>

\* on_log_data_loaded (iobeya_log_analyzer.py 459-476) for the message
\* list, the filters and the search engine, for any load of the window
show_loaded_data(log_entries_df) ==
  /\ log_entries_full' = log_entries_df
  /\ reset_all_filters_and_view(log_entries_df, TRUE)
  /\ UNCHANGED <<loadLimit, loaderVars>>

\* reset_app_state_after_error (iobeya_log_analyzer.py 517-523) for the
\* message list, the filters and the search engine: the store is emptied
\* and the view reset
show_load_error ==
  /\ log_entries_full' = <<>>
  /\ reset_all_filters_and_view(<<>>, TRUE)
  /\ UNCHANGED <<loadLimit, loaderVars>>

\* the menu action of the reset (iobeya_log_analyzer.py 103)
reset_view ==
  /\ reset_all_filters_and_view(log_entries_full, FALSE)
  /\ UNCHANGED <<log_entries_full, loadLimit, loaderVars>>

\* set_full_log_data (42-101) for the store
set_full_log_data(enable_full_text_indexing) ==
  /\ search_engine' =
       IF enable_full_text_indexing /\ log_entries_full # <<>>
       THEN index_data(search_engine,
                       messages_to_index(DataFrame(log_entries_full)))
       ELSE close(search_engine)
  /\ UNCHANGED <<selected_log_levels, timeline_filter, current_search_text,
                 global_search_query, global_search_timer,
                 message_type_search_input, message_type_search_timer,
                 search_input, search_timer, message_types_tree, pageVars,
                 log_entries_full, loadLimit, loaderVars>>

\* _apply_filters_and_update_views (413-486) for the filter state given:
\* the tree and the message list it leaves
apply_filters_and_update_views(query, levels, tf, text, type_text, tree, refresh_filter_categories) ==
  /\ message_types_tree' =
       tree_after_apply(log_entries_full, search_engine, query, levels, tf,
                        type_text, tree, refresh_filter_categories)
  /\ set_all_items_data(
       filtered_entries_list(log_entries_full, search_engine, query, levels,
                             tf, text, type_text, tree,
                             refresh_filter_categories))

\* on_global_search_changed (391-394)
on_global_search_changed(text) ==
  /\ global_search_query' = strip(text)
  /\ global_search_timer' = TRUE
  /\ UNCHANGED <<selected_log_levels, timeline_filter, current_search_text,
                 search_engine, message_type_search_input,
                 message_type_search_timer, search_input, search_timer,
                 message_types_tree, pageVars,
                 log_entries_full, loadLimit, loaderVars>>

\* the timeout of global_search_timer: _apply_search_filter_and_update_views
\* (409-411)
apply_search_filter_and_update_views ==
  /\ global_search_timer
  /\ global_search_timer' = FALSE
  /\ apply_filters_and_update_views(global_search_query, selected_log_levels,
                                    timeline_filter, current_search_text,
                                    message_type_search_input,
                                    message_types_tree, TRUE)
  /\ UNCHANGED <<selected_log_levels, timeline_filter, current_search_text,
                 global_search_query, search_engine,
                 message_type_search_input, message_type_search_timer,
                 search_input, search_timer,
                 log_entries_full, loadLimit, loaderVars>>

\* a text typed into the substring box: SearchWidget._on_text_changed_debounced
\* (ui_widgets.py 259)
on_text_changed_debounced(text) ==
  /\ text # search_input
  /\ search_input' = text
  /\ search_timer' = TRUE
  /\ UNCHANGED <<selected_log_levels, timeline_filter, current_search_text,
                 global_search_query, global_search_timer, search_engine,
                 message_type_search_input, message_type_search_timer,
                 message_types_tree, pageVars,
                 log_entries_full, loadLimit, loaderVars>>

\* the timeout of the substring box (ui_widgets.py 261) and
\* on_search_changed (396-407)
on_search_changed ==
  /\ search_timer
  /\ search_timer' = FALSE
  /\ current_search_text' = strip(search_input)
  /\ apply_filters_and_update_views(global_search_query, selected_log_levels,
                                    timeline_filter, current_search_text',
                                    message_type_search_input,
                                    message_types_tree, TRUE)
  /\ UNCHANGED <<selected_log_levels, timeline_filter,
                 global_search_query, global_search_timer, search_engine,
                 message_type_search_input, message_type_search_timer,
                 search_input,
                 log_entries_full, loadLimit, loaderVars>>

\* a text typed into the category search box:
\* on_message_type_search_changed_debounced (357-362)
on_message_type_search_changed_debounced(text) ==
  /\ text # message_type_search_input
  /\ message_type_search_input' = text
  /\ message_type_search_timer' = TRUE
  /\ UNCHANGED <<selected_log_levels, timeline_filter, current_search_text,
                 global_search_query, global_search_timer, search_engine,
                 search_input, search_timer, message_types_tree, pageVars,
                 log_entries_full, loadLimit, loaderVars>>

\* the timeout of message_type_search_timer: apply_message_type_filter
\* (364-371)
apply_message_type_filter ==
  /\ message_type_search_timer
  /\ message_type_search_timer' = FALSE
  /\ LET search_text == lower(message_type_search_input)
         tree == [c \in DOMAIN message_types_tree |->
                    [message_types_tree[c] EXCEPT
                       !.hidden = /\ search_text # <<>>
                                  /\ ~contains(lower(c), search_text)]]
     IN apply_filters_and_update_views(global_search_query,
                                       selected_log_levels, timeline_filter,
                                       current_search_text,
                                       message_type_search_input, tree, FALSE)
  /\ UNCHANGED <<selected_log_levels, timeline_filter, current_search_text,
                 global_search_query, global_search_timer, search_engine,
                 message_type_search_input, search_input, search_timer,
                 log_entries_full, loadLimit, loaderVars>>

\* on_timeline_bar_clicked (532-539)
on_timeline_bar_clicked(time_start, time_end) ==
  /\ timeline_filter' =
       [active |-> TRUE, start |-> time_start, end |-> time_end]
  /\ apply_filters_and_update_views(global_search_query, selected_log_levels,
                                    timeline_filter', current_search_text,
                                    message_type_search_input,
                                    message_types_tree, FALSE)
  /\ UNCHANGED <<selected_log_levels, current_search_text,
                 global_search_query, global_search_timer, search_engine,
                 message_type_search_input, message_type_search_timer,
                 search_input, search_timer,
                 log_entries_full, loadLimit, loaderVars>>

\* filter_by_specific_level (682-713)
filter_by_specific_level(level_to_show) ==
  /\ selected_log_levels' = {level_to_show}
  /\ LET tree == rebuild_message_types_data_and_list(
                   isin_selected_levels(log_entries_full, {level_to_show}),
                   message_type_search_input, TRUE, TRUE)
     IN apply_filters_and_update_views(global_search_query,
                                       selected_log_levels', timeline_filter,
                                       current_search_text,
                                       message_type_search_input, tree, FALSE)
  /\ UNCHANGED <<timeline_filter, current_search_text,
                 global_search_query, global_search_timer, search_engine,
                 message_type_search_input, message_type_search_timer,
                 search_input, search_timer,
                 log_entries_full, loadLimit, loaderVars>>

\* a click on the check box of a shown item of the tree, and
\* on_message_type_item_changed (373-389)
on_message_type_item_changed(item) ==
  /\ item \in DOMAIN message_types_tree
  /\ ~message_types_tree[item].hidden
  /\ LET tree == [message_types_tree EXCEPT ![item].checked = ~@]
     IN apply_filters_and_update_views(global_search_query,
                                       selected_log_levels, timeline_filter,
                                       current_search_text,
                                       message_type_search_input, tree, FALSE)
  /\ UNCHANGED <<selected_log_levels, timeline_filter, current_search_text,
                 global_search_query, global_search_timer, search_engine,
                 message_type_search_input, message_type_search_timer,
                 search_input, search_timer,
                 log_entries_full, loadLimit, loaderVars>>

\* what the three buttons below leave alone: they change the check marks
\* and update the timeline, nothing else
ButtonFrame ==
  UNCHANGED <<selected_log_levels, timeline_filter, current_search_text,
              global_search_query, global_search_timer, search_engine,
              message_type_search_input, message_type_search_timer,
              search_input, search_timer, pageVars,
              log_entries_full, loadLimit, loaderVars>>

\* select_top5_message_types and select_top10_message_types (652-656)
select_top_n_message_types(top_n) ==
  /\ message_types_tree' =
       select_top_n_types_logic(log_entries_full, selected_log_levels,
                                message_types_tree, top_n)
  /\ ButtonFrame

\* the button "select all visible" (iobeya_log_analyzer.py 271-272)
select_all_visible_types ==
  /\ message_types_tree' =
       set_check_state_for_visible_types(message_types_tree, TRUE, FALSE)
  /\ ButtonFrame

\* the button "deselect all" (iobeya_log_analyzer.py 275-276)
deselect_all_types ==
  /\ message_types_tree' =
       set_check_state_for_all_types(message_types_tree, FALSE, FALSE)
  /\ ButtonFrame

\* The state of AppLogic (14-33), of the SearchEngine, of the search boxes
\* and of the message list (ui_widgets.py 105-117, and lines 307-309 of
\* create_right_panel) when the window has been built.
ViewInit ==
  /\ selected_log_levels = Levels
  /\ timeline_filter = [active |-> FALSE, start |-> None, end |-> None]
  /\ current_search_text = <<>>
  /\ global_search_query = <<>>
  /\ global_search_timer = FALSE
  /\ search_engine = SearchEngineInit
  /\ message_type_search_input = <<>>
  /\ message_type_search_timer = FALSE
  /\ search_input = <<>>
  /\ search_timer = FALSE
  /\ message_types_tree = [c \in {} |-> 0]
  /\ all_items_data = <<>>
  /\ filtered_items_data = <<>>
  /\ visible_items = <<>>
  /\ current_page = 0
  /\ current_sort = [column |-> 0, order |-> "AscendingOrder"]

\* Python's None for the results that have not been computed
ToolInit ==
  /\ active_filter_loggers = {}
  /\ source_lines = <<>>
  /\ parsed_entries = None
  /\ full_entry = None
  /\ index_built_from = None
  /\ matching_indices = None
  /\ infolist = <<>>
  /\ file_items = None

\* ---------------------------------------------------------- specification
HostInit ==
  /\ threads = <<>>
  /\ queue = <<>>
  /\ tempfs = [d \in {} |-> NoFiles]
  /\ loader_thread = 0
  /\ current_temp_dir = 0
  /\ log_entries_full = <<>>
  /\ hstack = <<>>
  /\ closed = FALSE
  /\ lastStore = [by |-> "none", id |-> 0, had |-> FALSE]
  /\ ViewInit

Init ==
  /\ HostInit
  /\ ToolInit
  /\ loadLimit = MaxLoads
  /\ sortIn = <<>>
  /\ sortOut = <<>>

WorkerStep(t) ==
  \/ RunBegin(t)
  \/ ForMember(t)
  \/ MemberBody(t)
  \/ ProcessSingleFile(t)
  \/ ParseLoop(t)
  \/ ParseBody(t)
  \/ FallbackLoop(t)
  \/ FallbackTry(t)
  \/ MemberStopCheck(t)
  \/ CheckStop63(t)
  \/ CheckStop82(t)
  \/ EmitFinished(t)

Next ==
  \/ \E req \in LoadRequests : initiate_loading_process(req)
  \/ warning_closed
  \/ on_log_data_loaded
  \/ on_load_error
  \/ ErrorWaitReturns
  \/ ErrorWaitTimesOut
  \/ reset_app_state_after_error
  \/ closeEvent
  \/ CloseWaitReturns
  \/ CloseWaitTimesOut
  \/ \E t \in 1..MaxLoads : RunBegin(t)
  \/ \E t \in 1..MaxLoads : ForMember(t)
  \/ \E t \in 1..MaxLoads : MemberBody(t)
  \/ \E t \in 1..MaxLoads : ProcessSingleFile(t)
  \/ \E t \in 1..MaxLoads : ParseLoop(t)
  \/ \E t \in 1..MaxLoads : ParseBody(t)
  \/ \E t \in 1..MaxLoads : FallbackLoop(t)
  \/ \E t \in 1..MaxLoads : FallbackTry(t)
  \/ \E t \in 1..MaxLoads : MemberStopCheck(t)
  \/ \E t \in 1..MaxLoads : CheckStop63(t)
  \/ \E t \in 1..MaxLoads : CheckStop82(t)
  \/ \E t \in 1..MaxLoads : EmitFinished(t)
  \/ \E t \in 1..MaxLoads : Kill(t)

Spec == Init /\ [][Next]_vars

\* The fair specification: the threads are scheduled fairly, so a worker
\* that can take a step, or be killed, eventually does.
FairInit ==
  /\ HostInit
  /\ ToolInit
  /\ loadLimit = MaxFairLoads
  /\ sortIn = <<>>
  /\ sortOut = <<>>

FairSpec ==
  /\ FairInit
  /\ [][Next]_vars
  /\ \A t \in 1..MaxLoads : WF_vars(WorkerStep(t) \/ Kill(t))

\* The specification of one archive load: members chosen in the dialog
\* are extracted, parsed and displayed.
ArchiveInit ==
  /\ HostInit
  /\ ToolInit
  /\ loadLimit = 1
  /\ sortIn = <<>>
  /\ sortOut = <<>>

ArchiveNext ==
  \/ \E req \in ArchiveRequests : initiate_loading_process(req)
  \/ warning_closed
  \/ on_log_data_loaded
  \/ RunBegin(1)
  \/ ForMember(1)
  \/ MemberBody(1)
  \/ ProcessSingleFile(1)
  \/ ParseLoop(1)
  \/ ParseBody(1)
  \/ FallbackLoop(1)
  \/ FallbackTry(1)
  \/ MemberStopCheck(1)
  \/ CheckStop63(1)
  \/ CheckStop82(1)
  \/ EmitFinished(1)

ArchiveSpec == ArchiveInit /\ [][ArchiveNext]_vars

\* The parse-and-sort specification: run() on sources read to their end.
SortInit ==
  /\ HostInit
  /\ ToolInit
  /\ loadLimit = 0
  /\ sortIn \in SortInputs
  /\ sortOut = <<>>

SortNext == ParseAndSort

SortSpec == SortInit /\ [][SortNext]_vars

\* The specification of the filters: a load is displayed, the user types
\* into the three search boxes, clicks on the timeline, on the level
\* buttons, on the items and on the buttons of the category tree, and the
\* debounce timers run out.
FilterInit ==
  /\ HostInit
  /\ ToolInit
  /\ loadLimit = 0
  /\ sortIn = <<>>
  /\ sortOut = <<>>

FilterNext ==
  \/ \E log_entries_df \in FilterStores : display_loaded_data(log_entries_df)
  \/ reset_view
  \/ \E enable_full_text_indexing \in BOOLEAN :
       set_full_log_data(enable_full_text_indexing)
  \/ \E text \in GlobalSearchTexts : on_global_search_changed(text)
  \/ apply_search_filter_and_update_views
  \/ \E text \in SearchTexts : on_text_changed_debounced(text)
  \/ on_search_changed
  \/ \E text \in TypeSearchTexts :
       on_message_type_search_changed_debounced(text)
  \/ apply_message_type_filter
  \/ \E w \in TimeWindows : on_timeline_bar_clicked(w[1], w[2])
  \/ \E level_to_show \in LevelButtons : filter_by_specific_level(level_to_show)
  \/ \E item \in {Auth, Net} : on_message_type_item_changed(item)
  \/ \E top_n \in {Top5, Top10} : select_top_n_message_types(top_n)
  \/ select_all_visible_types
  \/ deselect_all_types

FilterSpec == FilterInit /\ [][FilterNext]_vars

\* The specification of the reloads: loads complete or fail one after the
\* other, the index is built or dropped for the store, full-text queries
\* are typed and applied.
ReloadInit ==
  /\ HostInit
  /\ ToolInit
  /\ loadLimit = 0
  /\ sortIn = <<>>
  /\ sortOut = <<>>

ReloadNext ==
  \/ \E log_entries_df \in FilterStores : show_loaded_data(log_entries_df)
  \/ show_load_error
  \/ \E enable_full_text_indexing \in BOOLEAN :
       set_full_log_data(enable_full_text_indexing)
  \/ \E text \in GlobalSearchTexts : on_global_search_changed(text)
  \/ apply_search_filter_and_update_views

ReloadSpec == ReloadInit /\ [][ReloadNext]_vars

\* The specification of the search engine: index_data, close and search
\* are called in any order.
IndexInit ==
  /\ HostInit
  /\ loadLimit = 0
  /\ sortIn = <<>>
  /\ sortOut = <<>>
  /\ active_filter_loggers = {}
  /\ source_lines = <<>>
  /\ parsed_entries = None
  /\ full_entry = None
  /\ index_built_from = [op |-> "init", messages |-> <<>>]
  /\ matching_indices =
       [done |-> FALSE, query |-> <<>>, built_from |-> index_built_from,
        raised |-> FALSE, rows |-> {}]
  /\ infolist = <<>>
  /\ file_items = None

\* the engine used on its own, with the message lists given to index_data
\* and the queries given to search
IndexNext ==
  \/ \E messages \in {<<>>, <<<<"d", "b">>>>,
                       <<<<"d", "b", " ", "u", "p">>, <<"u", "p">>>>} :
       build_index(messages)
  \/ clear_index
  \/ \E query \in {<<>>, <<" ">>, <<"d", "b">>, <<"u", "p", " ">>} :
       query_index(query)

IndexSpec == IndexInit /\ [][IndexNext]_vars

\* ------------------------------------------------------ parse and fetch
\* A line that starts with a timestamp and that entry_pattern does not
\* match: its level is none of INFO, WARN, ERROR, DEBUG, or it has no
\* logger in brackets.
StampedLine == [hdr |-> FALSE, ts |-> "2024-01-01 10:00:00", lgr |-> <<>>]

\* re.match(r'^\d{4}-\d{2}-\d{2} \d{2}:\d{2}:\d{2}', next_line)
\* (app_logic.py 525)
starts_with_timestamp(line) == line.ts # ""

\* the lines of the file of the parse-and-fetch specification
FileLines ==
  {HeaderLine("2024-01-01 10:00:00", Auth),
   HeaderLine("2024-01-01 10:00:01", Net),
   ContinuationLine, StampedLine}

\* _parse_log_from_iterator (167-219) on the file read to its end
parse_log_from_iterator ==
  /\ ~parsed_entries.done
  /\ parsed_entries' =
       [done |-> TRUE,
        log_entries |-> ParseLines(source_lines, SortPath(1),
                                   Len(source_lines), active_filter_loggers)]
  /\ UNCHANGED <<threads, queue, tempfs, hostVars, sortVars, filterVars,
                 pageVars, active_filter_loggers, source_lines, full_entry,
                 index_built_from, matching_indices, infolist, file_items>>

\* _fetch_full_log_entry, lines 518-529: the lines joined into the text
\* returned, for a file that exists and decodes
RECURSIVE following_lines(_, _)
following_lines(lines, n) ==
  IF n > Len(lines) THEN <<>>
  ELSE IF starts_with_timestamp(lines[n]) THEN <<>>
       ELSE <<lines[n]>> \o following_lines(lines, n + 1)

full_log_entry(lines, start_line) ==
  IF start_line \in 1..Len(lines)
  THEN <<lines[start_line]>> \o following_lines(lines, start_line + 1)
  ELSE <<>>

\* _fetch_full_log_entry (488-531) for an entry of the parsed file
fetch_full_log_entry(metadata_entry) ==
  /\ full_entry' =
       [done |-> TRUE, line_number |-> metadata_entry.line_number,
        text |-> full_log_entry(source_lines, metadata_entry.line_number)]
  /\ UNCHANGED <<threads, queue, tempfs, hostVars, sortVars, filterVars,
                 pageVars, active_filter_loggers, source_lines,
                 parsed_entries, index_built_from, matching_indices,
                 infolist, file_items>>

\* on_message_selected (app_logic.py 583): the entry selected in the
\* message list is read again from its file
on_message_selected ==
  /\ parsed_entries.done
  /\ \E k \in 1..Len(parsed_entries.log_entries) :
       fetch_full_log_entry(parsed_entries.log_entries[k])

\* The parse-and-fetch specification: a file is parsed under an
\* allow-list, then entries of it are read again on demand.
ParseInit ==
  /\ HostInit
  /\ loadLimit = 0
  /\ sortIn = <<>>
  /\ sortOut = <<>>
  \* the allow-list is empty, a prefix of Auth, or Net and a name no logger has
  /\ active_filter_loggers \in {{}, {<<"A", "u">>}, {Net, <<"N", "e", "t", "s">>}}
  /\ source_lines \in UNION {[1..k -> FileLines] : k \in 0..MaxFileLen}
  /\ parsed_entries = [done |-> FALSE, log_entries |-> <<>>]
  /\ full_entry = [done |-> FALSE, line_number |-> 0, text |-> <<>>]
  /\ index_built_from = None
  /\ matching_indices = None
  /\ infolist = <<>>
  /\ file_items = None

ParseNext ==
  \/ parse_log_from_iterator
  \/ on_message_selected

ParseSpec == ParseInit /\ [][ParseNext]_vars

\* ------------------------------------------- archive selection dialog
\* The members an archive of the dialog is made of: for each, what
\* is_dir(), startswith('__MACOSX/'), os.path.basename and
\* dated_file_pattern.match give (archive_selection_dialog.py 197-208),
\* and whether the base name is one of the four bare names (216).
ZipInfo(filename) ==
  CASE filename = "app-2024-01-01.log" ->
         [is_dir |-> FALSE, macosx |-> FALSE, basename |-> "app-2024-01-01.log",
          match |-> TRUE, log_type |-> "app", date_str |-> "2024-01-01",
          bare |-> FALSE]
    [] filename = "app-2024-01-02.log" ->
         [is_dir |-> FALSE, macosx |-> FALSE, basename |-> "app-2024-01-02.log",
          match |-> TRUE, log_type |-> "app", date_str |-> "2024-01-02",
          bare |-> FALSE]
    [] filename = "logs/error-2024-01-02-1.log.gz" ->
         [is_dir |-> FALSE, macosx |-> FALSE,
          basename |-> "error-2024-01-02-1.log.gz",
          match |-> TRUE, log_type |-> "error", date_str |-> "2024-01-02",
          bare |-> FALSE]
    [] filename = "app-2024-13-01.log" ->
         [is_dir |-> FALSE, macosx |-> FALSE, basename |-> "app-2024-13-01.log",
          match |-> TRUE, log_type |-> "app", date_str |-> "2024-13-01",
          bare |-> FALSE]
    [] filename = "app.log" ->
         [is_dir |-> FALSE, macosx |-> FALSE, basename |-> "app.log",
          match |-> FALSE, log_type |-> "app", date_str |-> "", bare |-> TRUE]
    [] filename = "logs/app.log" ->
         [is_dir |-> FALSE, macosx |-> FALSE, basename |-> "app.log",
          match |-> FALSE, log_type |-> "app", date_str |-> "", bare |-> TRUE]
    [] filename = "error.log.gz" ->
         [is_dir |-> FALSE, macosx |-> FALSE, basename |-> "error.log.gz",
          match |-> FALSE, log_type |-> "error", date_str |-> "", bare |-> TRUE]
    [] filename = "__MACOSX/app.log" ->
         [is_dir |-> FALSE, macosx |-> TRUE, basename |-> "app.log",
          match |-> FALSE, log_type |-> "app", date_str |-> "", bare |-> TRUE]
    [] filename = "logs/" ->
         [is_dir |-> TRUE, macosx |-> FALSE, basename |-> "",
          match |-> FALSE, log_type |-> "", date_str |-> "", bare |-> FALSE]
    [] OTHER ->
         [is_dir |-> FALSE, macosx |-> FALSE, basename |-> filename,
          match |-> FALSE, log_type |-> "", date_str |-> "", bare |-> FALSE]

ZipNames ==
  {"app-2024-01-01.log", "app-2024-01-02.log",
   "logs/error-2024-01-02-1.log.gz", "app-2024-13-01.log", "app.log",
   "logs/app.log", "error.log.gz", "__MACOSX/app.log", "logs/",
   "readme.txt"}

\* datetime.strptime(date_str, '%Y-%m-%d').date() (212), a date as the
\* number of its day in 2024; the thirteenth month raises ValueError
strptime_date(date_str) ==
  CASE date_str = "2024-01-01" -> 1
    [] date_str = "2024-01-02" -> 2
    [] OTHER -> ValueError

\* undated_files[filename] = value (218) on a dict kept as the sequence of
\* its items in insertion order: a key already present keeps its place
dict_set(undated_files, key, value) ==
  IF \E i \in 1..Len(undated_files) : undated_files[i].key = key
  THEN [i \in 1..Len(undated_files) |->
          IF undated_files[i].key = key
          THEN [key |-> key, value |-> value]
          ELSE undated_files[i]]
  ELSE Append(undated_files, [key |-> key, value |-> value])

\* the loop over zf.infolist() (203-218) from member n on; the ValueError
\* of strptime is caught by nothing (220) and ends the loop
RECURSIVE scan_members(_, _, _)
scan_members(members, n, acc) ==
  IF n > Len(members) THEN acc
  ELSE
    LET member_info == ZipInfo(members[n])
        log_date == strptime_date(member_info.date_str)
    IN  IF member_info.is_dir \/ member_info.macosx
        THEN scan_members(members, n + 1, acc)
        ELSE IF member_info.match
        THEN IF log_date = ValueError
             THEN [acc EXCEPT !.raised = TRUE]
             ELSE scan_members(members, n + 1,
                    [acc EXCEPT
                       !.file_items =
                          Append(@, [name |-> members[n],
                                     type |-> member_info.log_type,
                                     date |-> log_date]),
                       !.max_date =
                          IF @ = None \/ log_date > @ THEN log_date ELSE @])
        ELSE IF member_info.bare
        THEN scan_members(members, n + 1,
               [acc EXCEPT
                  !.undated_files =
                     dict_set(@, member_info.basename,
                              [name |-> members[n],
                               type |-> member_info.log_type,
                               date |-> None])])
        ELSE scan_members(members, n + 1, acc)

\* file_items.sort(key=lambda x: x['date']) (235): a stable sort
\* an item goes before the first item of a later date, so items of one
\* date keep the order they were appended in
RECURSIVE insert_by_date(_, _)
insert_by_date(item, sorted) ==
  IF sorted = <<>> THEN <<item>>
  ELSE IF item.date < Head(sorted).date THEN <<item>> \o sorted
       ELSE <<Head(sorted)>> \o insert_by_date(item, Tail(sorted))

RECURSIVE sort_items(_)
sort_items(items) ==
  IF items = <<>> THEN <<>>
  ELSE insert_by_date(items[Len(items)],
                      sort_items(SubSeq(items, 1, Len(items) - 1)))

\* ArchiveSelectionDialog.populate_file_list (196-238), called once by the
\* constructor of the dialog (23)
populate_file_list ==
  /\ ~file_items.done
  /\ LET acc == scan_members(infolist, 1,
                  [file_items |-> <<>>, undated_files |-> <<>>,
                   max_date |-> None, raised |-> FALSE])
         next_day == acc.max_date + 1
         extended ==
           IF acc.max_date # None /\ acc.undated_files # <<>>
           THEN acc.file_items \o
                [i \in 1..Len(acc.undated_files) |->
                   [acc.undated_files[i].value EXCEPT !.date = next_day]]
           ELSE acc.file_items
     IN  file_items' =
           IF acc.raised
           THEN [done |-> TRUE, raised |-> TRUE, items |-> acc.file_items]
           ELSE [done |-> TRUE, raised |-> FALSE,
                 items |-> sort_items(extended)]
  /\ UNCHANGED <<threads, queue, tempfs, hostVars, sortVars, filterVars,
                 pageVars, active_filter_loggers, source_lines,
                 parsed_entries, full_entry, index_built_from,
                 matching_indices, infolist>>

\* The specification of the dialog: an archive is opened in it.
DialogInit ==
  /\ HostInit
  /\ loadLimit = 0
  /\ sortIn = <<>>
  /\ sortOut = <<>>
  /\ active_filter_loggers = {}
  /\ source_lines = <<>>
  /\ parsed_entries = None
  /\ full_entry = None
  /\ index_built_from = None
  /\ matching_indices = None
  \* zf.infolist(): the members of an archive, no name twice
  /\ infolist \in
       {members \in UNION {[1..k -> ZipNames] : k \in 0..MaxZipMembers} :
          \A i, j \in 1..Len(members) : i # j => members[i] # members[j]}
  /\ file_items = [done |-> FALSE, raised |-> FALSE, items |-> <<>>]

DialogNext == populate_file_list

DialogSpec == DialogInit /\ [][DialogNext]_vars

\* The specification of the message list: results are given to it, its
\* sort indicator changes and its scroll bar moves.
PageInit ==
  /\ HostInit
  /\ ToolInit
  /\ loadLimit = 0
  /\ sortIn = <<>>
  /\ sortOut = <<>>

PageNext ==
  \/ \E items_data \in PageStores : new_result(items_data)
  \/ \E logical_index \in 0..3, order \in {"AscendingOrder", "DescendingOrder"} :
       on_sort_indicator_changed(logical_index, order)
  \/ \E maximum \in 0..MaxScroll : \E value \in 0..maximum :
       on_scroll(maximum, value)

PageSpec == PageInit /\ [][PageNext]_vars

\* ------------------------------------------------------------ properties
Terminals == {"finished", "error", "cancelled"}

Count(trace, kinds) == Cardinality({k \in 1..Len(trace) : trace[k] \in kinds})

Queued == {queue[k] : k \in 1..Len(queue)}

\* C1: the signals of a load are progress updates followed by exactly one
\* terminal signal: never two terminal signals, nothing after the terminal
\* signal, and a worker that has returned from run has emitted one.
C1_ExactlyOneTerminalSignal ==
  \A t \in DOMAIN threads :
    LET trace == threads[t].trace IN
    /\ Count(trace, Terminals) <= 1
    /\ Count(trace, Terminals) = 1 => trace[Len(trace)] \in Terminals
    /\ threads[t].pc = "done" => Count(trace, Terminals) = 1

\* C2: once stop() has been called on a worker, that worker emits no
\* finished_loading.
C2_NoCompletionAfterStop ==
  [][\A t \in DOMAIN threads :
       threads[t].should_stop =>
         Count(threads'[t].trace, {"finished"})
           <= Count(threads[t].trace, {"finished"})]_vars

\* C3: at most one worker is running; a running worker that has not been
\* asked to stop is the host's loader_thread and its temporary directory
\* exists and is the host's current one, whatever load requests were made.
C3_AtMostOneWorker ==
  /\ \A t1, t2 \in DOMAIN threads :
       isRunning(t1) /\ isRunning(t2) => t1 = t2
  /\ \A t \in DOMAIN threads :
       isRunning(t) /\ ~threads[t].should_stop =>
         /\ loader_thread = t
         /\ DirExists(threads[t].temp_dir)
         /\ current_temp_dir = threads[t].temp_dir

\* C3 witness: a load request was rejected while a worker runs on files it
\* has extracted
C3_Witness ==
  /\ Blocked = "busy_msgbox"
  /\ \E t \in DOMAIN threads :
       /\ isRunning(t)
       /\ ~threads[t].should_stop
       /\ DOMAIN tempfs[threads[t].temp_dir] # {}

\* C4 as claimed: the LogStore changes only when a completion signal is
\* delivered, and then to the entries that signal carries; a load that ends
\* otherwise leaves it as it was.
C4_StoreReplacedOnlyOnCompletion ==
  [][log_entries_full' # log_entries_full =>
       /\ queue # <<>>
       /\ Head(queue).sig = "finished_loading"
       /\ queue' = Tail(queue)
       /\ log_entries_full' = Head(queue).entries]_vars

\* C4 as amended: the LogStore changes only when a completion signal is
\* delivered, and then to exactly the entries that signal carries, or when
\* the host finishes handling a failure signal, and then to the empty store;
\* no step of a worker and no other step of the host changes it.
C4_StoreReplacedOnCompletionOrFailure ==
  [][log_entries_full' # log_entries_full =>
       \/ /\ queue # <<>>
          /\ Head(queue).sig = "finished_loading"
          /\ queue' = Tail(queue)
          /\ log_entries_full' = Head(queue).entries
       \/ /\ Blocked = "err_msgbox"
          /\ hstack' = Tail(hstack)
          /\ log_entries_full' = <<>>]_vars

\* C4 witness: the entries of a completed load were in the store when a
\* later load failed, and the failure handler emptied the store
C4_Witness ==
  /\ lastStore.by = "reset_app_state_after_error"
  /\ lastStore.had
  /\ log_entries_full = <<>>

\* the error_occurred signal of load t is waiting in the queue
ErrorQueued(t) == \E m \in Queued : m.sig = "error_occurred" /\ m.id = t

C6_OneTempDirOfLatestLoad ==
  /\ Cardinality(DOMAIN tempfs) <= 1
  /\ \A d \in DOMAIN tempfs : d = Len(threads) /\ d = current_temp_dir

\* C6 witness: a second load has been started while the store still shows
\* the entries extracted by the first one, and only the new directory exists
C6_Witness ==
  /\ Len(threads) = 2
  /\ DOMAIN tempfs = {2}
  /\ lastStore.by = "on_log_data_loaded"
  /\ lastStore.id = 1
  /\ \E k \in 1..Len(log_entries_full) :
       log_entries_full[k].source_file_path.dir = 1

\* the load of thread th is one whose failure is fatal: a single file that
\* cannot be read, or an archive that cannot be opened
FatalLoad(th) ==
  \/ BadZipFile(th.archive_path)
  \/ /\ th.file_path # ""
     /\ \/ ~Source(th.file_path).exists
        \/ Source(th.file_path).gz /\ ~Source(th.file_path).gz_ok

\* C7: a load whose failure is fatal emits error_occurred at most once and
\* never finished_loading, and hands no LogStore to the host.
C7_FatalLoadEmitsOnlyError ==
  \A t \in DOMAIN threads :
    FatalLoad(threads[t]) =>
      /\ Count(threads[t].trace, {"error"}) <= 1
      /\ Count(threads[t].trace, {"finished"}) = 0
      /\ ~\E m \in Queued : m.sig = "finished_loading" /\ m.id = t

\* the reason recorded for a member that cannot be processed
MemberFailure(name) ==
  IF ~Source(name).exists THEN "File not found in archive."
  ELSE "Error processing: Not a gzipped file"

MemberIsGood(name) ==
  Source(name).exists /\ (Source(name).gz => Source(name).gz_ok)

\* the pairs (member, reason) of the members of sel that cannot be processed
RECURSIVE ExpectedFailed(_)
ExpectedFailed(sel) ==
  IF sel = <<>> THEN <<>>
  ELSE LET name == sel[Len(sel)]
           before == ExpectedFailed(SubSeq(sel, 1, Len(sel) - 1))
       IN IF MemberIsGood(name) THEN before
          ELSE Append(before, <<name, MemberFailure(name)>>)

\* the entries of the good members of sel, in member order then line order
RECURSIVE ExpectedEntries(_, _, _)
ExpectedEntries(sel, d, loggers) ==
  IF sel = <<>> THEN <<>>
  ELSE LET name == sel[Len(sel)]
           before == ExpectedEntries(SubSeq(sel, 1, Len(sel) - 1), d, loggers)
       IN IF MemberIsGood(name)
          THEN before \o ParseLines(Source(name).lines,
                                    TempPath(d, StripGz(name)),
                                    Len(Source(name).lines), loggers)
          ELSE before

\* the completion signals of archive loads whose worker object still exists
ArchiveCompletions ==
  {m \in Queued : /\ m.sig = "finished_loading"
                  /\ threads[m.id].archive_path = "logs.zip"}

\* C8: the completion signal of an archive load carries one pair (member,
\* reason) for every selected member that could not be processed, in member
\* order, and the entries of every other selected member, also of those
\* that come after a failed one, and no entry of a failed member.
C8_MemberFailureIsRecordedAndSkipped ==
  \A m \in ArchiveCompletions :
    LET th == threads[m.id] IN
    /\ m.failed = ExpectedFailed(th.selected_files_from_archive)
    /\ m.entries = SortEntries(ExpectedEntries(th.selected_files_from_archive,
                                               th.temp_dir,
                                               th.active_filter_loggers))

\* C8 witness: a completion signal carries a failure for the first selected
\* member and the entries of a later one
C8_Witness ==
  \E m \in ArchiveCompletions :
    LET sel == threads[m.id].selected_files_from_archive IN
    /\ Len(sel) >= 2
    /\ ~MemberIsGood(sel[1])
    /\ Len(m.failed) = 1
    /\ m.failed[1][1] = sel[1]
    /\ m.entries # <<>>

\* the positions between a should_stop check that let the worker go on and
\* the work it let through: a line to handle, a member to extract, a
\* fallback encoding to try
InFlight == {"parse_body", "member_body", "fallback_try"}

\* the number of entries the worker holds
Gathered(th) == Len(th.all_entries) + Len(th.log_entries)

\* the step appends an entry, starts a member or starts a fallback attempt
DoesWork(t) ==
  \/ Gathered(threads'[t]) > Gathered(threads[t])
  \/ threads[t].pc = "member_body" /\ threads'[t].pc # "member_body"
  \/ threads[t].pc = "fallback_try" /\ threads'[t].pc # "fallback_try"

StopRequested(t) == t \in DOMAIN threads /\ threads[t].should_stop

Stopped(t) == t \in DOMAIN threads /\ ~isRunning(t)

\* the entries of the whole input of the load of thread th
CompleteEntries(th) ==
  IF th.archive_path # ""
  THEN IF BadZipFile(th.archive_path) THEN <<>>
       ELSE ExpectedEntries(th.selected_files_from_archive, th.temp_dir,
                            th.active_filter_loggers)
  ELSE ParseLines(Source(th.file_path).lines,
                  IF EndsWithGz(th.file_path)
                  THEN TempPath(th.temp_dir, StripGz(th.file_path))
                  ELSE DiskPath(th.file_path),
                  Len(Source(th.file_path).lines), th.active_filter_loggers)

\* no completion signal carries the entries of a load that was cut short
NoPartialResult ==
  \A m \in Queued :
    m.sig = "finished_loading" /\ threads[m.id].pc # "collected" =>
      m.entries = SortEntries(CompleteEntries(threads[m.id]))

\* C9 as claimed: once stop() has been called the worker appends no entry,
\* starts no archive member and no fallback decoding attempt; it ends, and
\* no partial result reaches the host.
C9_NoWorkAfterStop ==
  /\ [][\A t \in DOMAIN threads : threads[t].should_stop => ~DoesWork(t)]_vars
  /\ []NoPartialResult
  /\ \A t \in 1..MaxLoads : StopRequested(t) ~> Stopped(t)

\* C9 as amended: once stop() has been called the worker passes no further
\* should_stop check; it does at most the work that the check it had
\* already passed let through (the line just read, the member or the
\* fallback attempt about to start) and no other; it ends, and no partial
\* result reaches the host.
C9_StopTakesEffectAtNextCheck ==
  /\ [][\A t \in DOMAIN threads :
          threads[t].should_stop =>
            /\ threads'[t].pc \in InFlight => threads'[t].pc = threads[t].pc
            /\ threads[t].pc \notin InFlight => ~DoesWork(t)]_vars
  /\ []NoPartialResult
  /\ \A t \in 1..MaxLoads : StopRequested(t) ~> Stopped(t)

\* C9 witness: a worker that was stopped while it held entries of an
\* unfinished load has returned after the cancellation acknowledgement
C9_Witness ==
  \E t \in DOMAIN threads :
    /\ threads[t].should_stop
    /\ threads[t].pc = "done"
    /\ threads[t].total_messages_loaded > 0
    /\ Len(threads[t].selected_files_from_archive) >= 2
    /\ threads[t].trace[Len(threads[t].trace)] = "cancelled"

\* the timestamp of the entry is a date
Parsed(e) == strptime(e.datetime) # ValueError

\* entry e1 was ingested before entry e2: earlier source, or earlier line
IngestedBefore(e1, e2) ==
  \/ e1.source_file_path = SortPath(1) /\ e2.source_file_path = SortPath(2)
  \/ /\ e1.source_file_path = e2.source_file_path
     /\ e1.line_number < e2.line_number

\* the header lines of the k-th source, as positions
HeaderPositions(k) == {n \in 1..Len(sortIn[k]) : sortIn[k][n].hdr}

\* C10: the sorted sequence holds exactly one entry for every header line
\* of every source, also for those whose timestamp is no date; entries with
\* a date are in ascending order of their date, entries without come after
\* all of them, and entries with equal date, or both without, keep their
\* ingestion order.
C10_SortedStableUnparsedLast ==
  sortOut # <<>> =>
    /\ Len(sortOut) = Cardinality(HeaderPositions(1))
                        + Cardinality(HeaderPositions(2))
    /\ \A k \in 1..2 : \A n \in HeaderPositions(k) :
         \E i \in 1..Len(sortOut) :
           /\ sortOut[i].source_file_path = SortPath(k)
           /\ sortOut[i].line_number = n
           /\ sortOut[i].datetime = sortIn[k][n].ts
    /\ \A i, j \in 1..Len(sortOut) :
         i < j =>
           LET e1 == sortOut[i]
               e2 == sortOut[j]
           IN /\ Parsed(e1) /\ Parsed(e2) =>
                   strptime(e1.datetime) <= strptime(e2.datetime)
              /\ ~(~Parsed(e1) /\ Parsed(e2))
              /\ (strptime(e1.datetime) = strptime(e2.datetime)) =>
                   IngestedBefore(e1, e2)

\* C10 witness: the first line read has a timestamp that is no date, a
\* later line has a date, and two sources have entries with the same date
C10_Witness ==
  /\ sortOut # <<>>
  /\ sortIn[1][1].hdr /\ strptime(sortIn[1][1].ts) = ValueError
  /\ \E i, j \in 1..Len(sortOut) :
       /\ i < j
       /\ Parsed(sortOut[i])
       /\ sortOut[i].datetime = sortOut[j].datetime
       /\ sortOut[i].source_file_path # sortOut[j].source_file_path
  /\ ~Parsed(sortOut[Len(sortOut)])

\* ------------------------------------------------- the message list
\* the smaller of two numbers
Min(a, b) == IF a < b THEN a ELSE b

\* rows is items in some order
SameRows(rows, items) ==
  /\ Len(rows) = Len(items)
  /\ \A e \in {items[i] : i \in 1..Len(items)} :
       Cardinality({i \in 1..Len(rows) : rows[i] = e})
         = Cardinality({i \in 1..Len(items) : items[i] = e})

\* rows is in the order of the sort indicator: no row stands after a row
\* whose key is greater (smaller, for a descending sort)
InSortOrder(rows, sort) ==
  \A i, j \in 1..Len(rows) :
    i < j => ~sorts_before(rows[j], rows[i], sort.column,
                           sort.order = "DescendingOrder",
                           raises_TypeError(rows, sort.column))

\* C19: a step that changes the sort, or gives a new result to the message
\* list, leaves the list with the new result in the order of the sort
\* indicator, with exactly its first min(items_per_page, n) rows
\* materialised, whatever rows were materialised before, and with the
\* page counter counting that one page.
C19_SortOrResultRestartsPaging ==
  [][((\E items_data \in PageStores : new_result(items_data))
       \/ (\E logical_index \in 0..3,
               order \in {"AscendingOrder", "DescendingOrder"} :
               on_sort_indicator_changed(logical_index, order)))
     => /\ SameRows(filtered_items_data', all_items_data')
        /\ InSortOrder(filtered_items_data', current_sort')
        /\ visible_items' =
             SubSeq(filtered_items_data', 1,
                    Min(items_per_page, Len(filtered_items_data')))
        /\ current_page' = IF filtered_items_data' = <<>> THEN 0 ELSE 1]_vars

\* C19 witness: the sort indicator was changed while the result has more
\* rows than a page, and one page is materialised
C19_Witness ==
  /\ current_sort # [column |-> 0, order |-> "AscendingOrder"]
  /\ Len(filtered_items_data) > items_per_page
  /\ Len(visible_items) = items_per_page
  /\ current_page = 1
  /\ filtered_items_data # all_items_data

\* C20: in every state the materialised rows are the first
\* min(k * items_per_page, n) rows of the sorted result, k being the number
\* of pages loaded, and once all n rows are materialised _load_more_items
\* changes nothing.
C20_MaterialisedRowsArePrefix ==
  /\ visible_items =
       SubSeq(filtered_items_data, 1,
              Min(current_page * items_per_page, Len(filtered_items_data)))
  /\ Len(visible_items) = Len(filtered_items_data) =>
       load_more_items(filtered_items_data, visible_items, current_page)
         = [visible_items |-> visible_items, current_page |-> current_page]

\* C20 witness: a second page was loaded and it completed the result
C20_Witness ==
  /\ current_page = 2
  /\ Len(filtered_items_data) > items_per_page
  /\ Len(visible_items) = Len(filtered_items_data)


\* ------------------------------------------------------- the filters
\* no debounce timer runs: every change of a text has been handled
Quiescent ==
  ~global_search_timer /\ ~search_timer /\ ~message_type_search_timer

\* the five stages applied to the filter state of the current state
Pipeline ==
  IF log_entries_full = <<>> THEN <<>>
  ELSE to_dict(
         stage5(
           stage4(
             stage3(
               stage2(
                 stage1(DataFrame(log_entries_full), search_engine,
                        global_search_query),
                 selected_log_levels),
               timeline_filter),
             message_types_tree),
           current_search_text))

\* C11: in every state in which no debounce timer runs, the result
\* published to the message list is the five-stage pipeline applied to the
\* current filter state (full-text query, levels, window, checked
\* categories, substring).
C11_PublishedResultIsCurrent == Quiescent => all_items_data = Pipeline


\* C12: while the store is indexed, the message at position i of the index
\* is the message of the entry at position i of the store, and stage 1
\* keeps exactly the entries whose own message matches the query.
C12_IndexRowsAreStoreRows ==
  search_engine.is_indexed =>
    /\ search_engine.logs =
         [i \in 1..Len(log_entries_full) |->
            log_entries_full[i].message_preview]
    /\ global_search_query # <<>> =>
         stage1(DataFrame(log_entries_full), search_engine,
                global_search_query)
           = SelectSeq(DataFrame(log_entries_full),
                       LAMBDA r : fts_match(r.entry.message_preview,
                                            split(global_search_query)))


\* the steps that recompute with a refresh of the categories
RefreshStep ==
  \/ \E log_entries_df \in FilterStores : display_loaded_data(log_entries_df)
  \/ reset_view
  \/ apply_search_filter_and_update_views
  \/ on_search_changed

\* the positions of a store whose entries pass a full-text query, the
\* levels and a window
PassStages123(store, engine, query, levels, tf) ==
  {i \in 1..Len(store) :
     /\ query # <<>> /\ engine.is_indexed => (i - 1) \in search(engine, query)
     /\ store[i].log_level \in levels
     /\ tf.active => /\ tf.start <= store[i].datetime_obj
                     /\ store[i].datetime_obj < tf.end}

\* the number of entries of category c among the positions given
CountOf(c, store, positions) ==
  Cardinality({i \in positions : store[i].logger_name = c})

\* the categories of the entries at the positions given
Counted(store, positions) == {store[i].logger_name : i \in positions}

\* the tree lists the categories among listed, each with the number of its
\* entries at the positions given
TreeCounts(tree, store, positions, listed) ==
  /\ DOMAIN tree = listed
  /\ \A c \in listed : tree[c].count = CountOf(c, store, positions)

\* C13 as stated: after a recompute with refresh the tree lists every
\* category that has an entry passing stages 1-3, each with the number of
\* those entries.
C13_RefreshListsEveryCategory ==
  [][RefreshStep =>
       LET passed == PassStages123(log_entries_full', search_engine',
                                   global_search_query', selected_log_levels',
                                   timeline_filter')
       IN TreeCounts(message_types_tree', log_entries_full', passed,
                     Counted(log_entries_full', passed))]_vars

\* C13 amended: after a recompute with refresh the tree lists the
\* categories that have an entry passing stages 1-3 and whose name contains
\* the text of the category search box, without case, each with the number
\* of the entries of that category passing stages 1-3, whatever was
\* checked and whatever the substring query is.
C13_RefreshListsSearchedCategories ==
  [][RefreshStep =>
       LET passed == PassStages123(log_entries_full', search_engine',
                                   global_search_query', selected_log_levels',
                                   timeline_filter')
           searched == {c \in Counted(log_entries_full', passed) :
                          \/ message_type_search_input' = <<>>
                          \/ contains(lower(c),
                                      lower(message_type_search_input'))}
       IN TreeCounts(message_types_tree', log_entries_full', passed,
                     searched)]_vars

\* the positions passing stages 1-3 in the current state
Passed ==
  PassStages123(log_entries_full, search_engine, global_search_query,
                selected_log_levels, timeline_filter)

\* C13 witness: a refresh under a window, a substring query and a text in
\* the category search box left a tree that lacks a counted category
C13_Witness ==
  /\ Quiescent
  /\ timeline_filter.active
  /\ current_search_text # <<>>
  /\ message_type_search_input # <<>>
  /\ DOMAIN message_types_tree # {}
  /\ \A c \in DOMAIN message_types_tree :
       /\ ~message_types_tree[c].checked
       /\ message_types_tree[c].count = CountOf(c, log_entries_full, Passed)
  /\ Counted(log_entries_full, Passed) \ DOMAIN message_types_tree # {}
  /\ Len(all_items_data) < Cardinality(Passed)


\* the n most frequent categories among the positions given, equal counts
\* in the order of the names
TopByName(store, positions, n) ==
  LET cats == Counted(store, positions)
      ahead(d, c) ==
        \/ CountOf(d, store, positions) > CountOf(c, store, positions)
        \/ /\ CountOf(d, store, positions) = CountOf(c, store, positions)
           /\ str_lt(d, c)
  IN {c \in cats : Cardinality({d \in cats : ahead(d, c)}) < n}

\* C14: a click on a Top-N button checks, among the categories of the
\* tree, exactly those that are among the n most frequent categories of the
\* entries passing stages 1-2 (full-text query and levels), equal counts
\* ranked by name.
C14_TopNByCountThenName ==
  [][\A top_n \in {Top5, Top10} :
       select_top_n_message_types(top_n) =>
         \A c \in DOMAIN message_types_tree' :
           message_types_tree'[c].checked <=>
             c \in TopByName(log_entries_full,
                             PassStages123(log_entries_full, search_engine,
                                           global_search_query,
                                           selected_log_levels,
                                           [active |-> FALSE, start |-> None,
                                            end |-> None]),
                             top_n)]_vars

\* C15: after a click on a Top-N button the checked categories are exactly
\* the categories _select_top_n_types_logic chose.
C15_SelectionIsChosenSet ==
  [][\A top_n \in {Top5, Top10} :
       select_top_n_message_types(top_n) =>
         selected_types(message_types_tree')
           = nlargest(isin_selected_levels(log_entries_full,
                                           selected_log_levels), top_n)]_vars


\* the frame stages 1-2 leave in the current state, and the one stages 1-3
\* leave
Stage2Output ==
  stage2(stage1(DataFrame(log_entries_full), search_engine,
                global_search_query), selected_log_levels)

Stage3Output == stage3(Stage2Output, timeline_filter)

\* the labels of the rows of a frame
Labels(df) == {df[i].index : i \in 1..Len(df)}

\* the rows of a frame
Rows(df) == {df[i] : i \in 1..Len(df)}

\* out holds the rows of df that are in kept, in the order of df
IsSubFrame(out, df, kept) ==
  /\ \A i \in 1..Len(out) : \E j \in 1..Len(df) : out[i] = df[j]
  /\ \A j \in 1..Len(df) : (df[j].index \in Labels(out)) <=> (df[j] \in kept)
  /\ \A i, j \in 1..Len(out) : i < j => out[i].index < out[j].index

\* C16: in every state, stage 4 applied to the output of stage 3 keeps every
\* row when no item of the tree is checked, and otherwise exactly the rows
\* whose category is checked.
C16_NothingCheckedKeepsAll ==
  LET out == stage4(Stage3Output, message_types_tree)
      checked == {c \in DOMAIN message_types_tree :
                    message_types_tree[c].checked}
  IN IF checked = {} THEN out = Stage3Output
     ELSE IsSubFrame(out, Stage3Output,
                     {r \in Rows(Stage3Output) : r.entry.logger_name \in checked})

\* C16 witness: a category is checked, another is not, both have entries in
\* the output of stage 3, and the message list shows the checked one only
C16_Witness ==
  /\ Quiescent
  /\ current_search_text = <<>>
  /\ \E c, d \in DOMAIN message_types_tree :
       /\ message_types_tree[c].checked /\ ~message_types_tree[d].checked
       /\ \E i, j \in 1..Len(Stage3Output) :
            /\ Stage3Output[i].entry.logger_name = c
            /\ Stage3Output[j].entry.logger_name = d
  /\ all_items_data = to_dict(stage4(Stage3Output, message_types_tree))
  /\ Len(all_items_data) < Len(Stage3Output)

\* the timestamp of an entry could be parsed
HasTimestamp(entry) == strptime(entry.datetime) # ValueError

\* C17: in every state, stage 3 applied to the output of stage 2 keeps,
\* under an active window, exactly the rows with a parsed timestamp t such
\* that start <= t < end, and every row when no window is active.
C17_HalfOpenWindow ==
  LET out == stage3(Stage2Output, timeline_filter) IN
  IF timeline_filter.active
  THEN IsSubFrame(out, Stage2Output,
                  {r \in Rows(Stage2Output) :
                     /\ HasTimestamp(r.entry)
                     /\ timeline_filter.start <= strptime(r.entry.datetime)
                     /\ strptime(r.entry.datetime) < timeline_filter.end})
  ELSE out = Stage2Output


\* the tree and the list one call of _apply_filters_and_update_views leaves
\* when it starts from the filter state of the current state with the tree
\* given
TreeAfter(tree, refresh) ==
  tree_after_apply(log_entries_full, search_engine, global_search_query,
                   selected_log_levels, timeline_filter,
                   message_type_search_input, tree, refresh)

ListAfter(tree, refresh) ==
  filtered_entries_list(log_entries_full, search_engine, global_search_query,
                        selected_log_levels, timeline_filter,
                        current_search_text, message_type_search_input,
                        tree, refresh)

\* C18: in every state, with and without refresh of the categories, a
\* second call of _apply_filters_and_update_views that starts from what the
\* first call left (same filter state, the tree of the first call) gives
\* the same list of entries and the same tree (categories, counts, check
\* marks) as the first call.
C18_SecondCallChangesNothing ==
  \A refresh \in BOOLEAN :
    LET tree1 == TreeAfter(message_types_tree, refresh)
        list1 == ListAfter(message_types_tree, refresh)
    IN /\ TreeAfter(tree1, refresh) = tree1
       /\ ListAfter(tree1, refresh) = list1

\* C18 witness: a category is checked and hides entries of the store, and
\* the first call with refresh changes both the tree and the list
C18_Witness ==
  /\ log_entries_full # <<>>
  /\ \E c \in DOMAIN message_types_tree : message_types_tree[c].checked
  /\ TreeAfter(message_types_tree, TRUE) # message_types_tree
  /\ ListAfter(message_types_tree, TRUE) # all_items_data
  /\ ListAfter(message_types_tree, TRUE) # ListAfter(message_types_tree, FALSE)
  /\ ListAfter(message_types_tree, FALSE) # <<>>

\* C27: a step of filter_by_specific_level, and a step of the reset of the
\* view, leaves every category of the rebuilt tree checked.
C27_RebuiltTreeIsAllChecked ==
  [][((\E level_to_show \in LevelButtons :
          filter_by_specific_level(level_to_show)) \/ reset_view)
       => \A c \in DOMAIN message_types_tree' :
            message_types_tree'[c].checked]_vars

\* C28: a recompute with refresh of the categories (the timeout of the
\* substring box or of the full-text box) leaves the set of checked
\* categories as it was.
C28_RefreshKeepsSelection ==
  [][(on_search_changed \/ apply_search_filter_and_update_views)
       => selected_types(message_types_tree')
            = selected_types(message_types_tree)]_vars

\* C29: after the reset of the view (initial_load = False) all levels are
\* selected, no window is active, the substring query and the full-text
\* query are empty, and the list published is the whole LogStore.
C29_ResetClearsEveryFilter ==
  [][reset_view
       => /\ selected_log_levels' = Levels
          /\ ~timeline_filter'.active
          /\ current_search_text' = <<>>
          /\ global_search_query' = <<>>
          /\ all_items_data' = to_dict(DataFrame(log_entries_full))]_vars

\* ------------------------------------------- the files behind the store
\* C30: while the window is open, the file named by source_file_path of
\* every entry of the LogStore exists, so that _fetch_full_log_entry can
\* read the entry again.
C30_SourceFilesOfStoreExist ==
  ~closed =>
    \A i \in 1..Len(log_entries_full) :
      FileExists(log_entries_full[i].source_file_path)

\* ------------------------------------------------- the index and the store
\* C25: whenever the index is ready, its rows are the messages of the
\* LogStore that is loaded now.
C25_IndexIsOfLoadedStore ==
  search_engine.is_indexed =>
    search_engine.logs = messages_to_index(DataFrame(log_entries_full))

\* ------------------------------------------------- the search engine alone
\* the index was not ready when the last search was made: never built,
\* closed since, or last built from an empty list
NotReady(built_from) ==
  built_from.op \in {"init", "close"} \/ built_from.messages = <<>>

\* C24: every search made while the index was unbuilt, closed or last
\* built from an empty list of messages, and every search for an empty or
\* blank query, returned the empty set and did not raise.
C24_SearchOfNothingIsEmpty ==
  (/\ matching_indices.done
   /\ \/ NotReady(matching_indices.built_from)
      \/ strip(matching_indices.query) = <<>>)
    => /\ ~matching_indices.raised
       /\ matching_indices.rows = {}

\* C24 witness: a query with a term was made on an engine that had been
\* built from messages matching it and then built again from no message
C24_Witness ==
  /\ matching_indices.done
  /\ matching_indices.query = <<"d", "b">>
  /\ matching_indices.built_from = [op |-> "index_data", messages |-> <<>>]
  /\ index_built_from = matching_indices.built_from
  /\ search_engine.open
  /\ search_engine.logs # <<>>
  /\ matching_indices.rows = {}

\* ------------------------------------------------------ parse and fetch
\* the header lines of the file that pass the allow-list
KeptHeaders ==
  {n \in 1..Len(source_lines) :
     /\ source_lines[n].hdr
     /\ \/ active_filter_loggers = {}
        \/ \E prefix \in active_filter_loggers :
             startswith(source_lines[n].lgr, prefix)}

\* C23: once the file is parsed there is one entry for every header line
\* that passes the allow-list (for every header line without an
\* allow-list) and no other entry, the entries are in the order of their
\* lines, and the line_number of an entry is the number of its header line
\* in the file.
C23_OneEntryPerKeptHeader ==
  parsed_entries.done =>
    /\ Len(parsed_entries.log_entries) = Cardinality(KeptHeaders)
    /\ \A i \in 1..Len(parsed_entries.log_entries) :
         /\ parsed_entries.log_entries[i].line_number \in KeptHeaders
         /\ parsed_entries.log_entries[i].datetime
              = source_lines[parsed_entries.log_entries[i].line_number].ts
         /\ parsed_entries.log_entries[i].logger_name
              = source_lines[parsed_entries.log_entries[i].line_number].lgr
    /\ \A i, j \in 1..Len(parsed_entries.log_entries) :
         i < j => parsed_entries.log_entries[i].line_number < parsed_entries.log_entries[j].line_number

\* C23 witness: under an allow-list an entry was made for a header that
\* follows a rejected header, and a line of the file is no header
C23_Witness ==
  /\ parsed_entries.done
  /\ active_filter_loggers # {}
  /\ \E i \in 1..Len(parsed_entries.log_entries) :
       \E n \in 1..(parsed_entries.log_entries[i].line_number - 1) :
         source_lines[n].hdr /\ n \notin KeptHeaders
  /\ \E n \in 1..Len(source_lines) : ~source_lines[n].hdr

\* the line after the last line of the entry that starts at line n, for
\* the parser: the next line entry_pattern matches, or the end of the file
NextHeader(n) ==
  IF \E m \in (n + 1)..Len(source_lines) : source_lines[m].hdr
  THEN CHOOSE m \in (n + 1)..Len(source_lines) :
         /\ source_lines[m].hdr
         /\ \A k \in (n + 1)..(m - 1) : ~source_lines[k].hdr
  ELSE Len(source_lines) + 1

\* C22: the text read on demand for an entry is the header line of the
\* entry followed by every line up to the next line that entry_pattern
\* matches, or up to the end of the file.
C22_FetchedBodyIsParsedBody ==
  full_entry.done =>
    full_entry.text =
      SubSeq(source_lines, full_entry.line_number,
             NextHeader(full_entry.line_number) - 1)

\* ------------------------------------------- archive selection dialog
\* the members the dialog does not skip whose base name is a bare name
BareMembers ==
  {n \in 1..Len(infolist) :
     /\ ~ZipInfo(infolist[n]).is_dir
     /\ ~ZipInfo(infolist[n]).macosx
     /\ ~ZipInfo(infolist[n]).match
     /\ ZipInfo(infolist[n]).bare}

\* the dates in the names of the dated members
DatedDays ==
  {strptime_date(ZipInfo(infolist[n]).date_str) :
     n \in {m \in 1..Len(infolist) :
              /\ ~ZipInfo(infolist[m]).is_dir
              /\ ~ZipInfo(infolist[m]).macosx
              /\ ZipInfo(infolist[m]).match}}

\* C26: once the dialog has read the archive, every bare member app.log or
\* error.log (with or without .gz) is an item of the list, and its date is
\* the day after the latest date of the dated members.
C26_BareMembersAreListedNextDay ==
  file_items.done =>
    \A n \in BareMembers :
      \E i \in 1..Len(file_items.items) :
        /\ file_items.items[i].name = infolist[n]
        /\ \A d \in DatedDays :
             d # ValueError => file_items.items[i].date > d
        /\ file_items.items[i].date - 1 \in DatedDays \/ DatedDays = {}

\* ------------------------------------------------------- archive loads
\* C21: in the store a load has produced every line_number is at least 1
\* and no two entries have the same source_file_path and line_number, also
\* when the members selected have one base name in different folders or
\* are X.log and X.log.gz.
C21_PathAndLineAreUnique ==
  /\ \A i \in 1..Len(log_entries_full) : log_entries_full[i].line_number >= 1
  /\ \A i, j \in 1..Len(log_entries_full) :
       /\ log_entries_full[i].source_file_path
            = log_entries_full[j].source_file_path
       /\ log_entries_full[i].line_number = log_entries_full[j].line_number
       => i = j


====
